---- MODULE Spec2Model ----
(***************************************************************************)
(* A model of the NnennaAI pipeline engine (modules/run_engine.py), its    *)
(* provider adapters (modules/embedders, retrievers, generators,           *)
(* evaluators) and the run persistence helpers (cli/utils.py).             *)
(*                                                                         *)
(* The module holds several specifications over disjoint variable groups:  *)
(*   SpecChunk      RunEngine._simple_chunk_text, one loop step per action *)
(*   SpecEval       RAGASEvaluator / SimpleEvaluator                       *)
(*   SpecRetriever  ChromaRetriever                                        *)
(*   SpecEmbedder   OpenAIEmbedder                                         *)
(*   Spec           RunEngine.run / ingest with its adapters               *)
(*   SpecIngest     RunEngine.ingest over any documents, batches, faults   *)
(*   SpecLife       RunEngine.setup / teardown / run / score / ingest over *)
(*                  known and unknown providers                            *)
(*   SpecThreads    one retriever's counters updated by one or two threads *)
(*   SpecConfig     the `config get` / `config set` commands on one file   *)
(*   SpecInitCmd    the `init` command on one project path                 *)
(*   SpecCli        the `ingest` and `run` commands in an init-made project*)
(* A specification leaves the variables of the other groups at their       *)
(* initial values.                                                         *)
(***************************************************************************)
EXTENDS Integers, Sequences, FiniteSets, TLC

VARIABLES
    \* ---- RunEngine._simple_chunk_text (one invocation) ----
    ck_pc,        \* "call" | "loop" | "done"
    ck_text,      \* argument text
    ck_size,      \* argument chunk_size
    ck_overlap,   \* argument overlap
    ck_start,     \* local start
    ck_chunks,    \* local chunks (the returned list once ck_pc = "done")
    ck_starts,    \* history: the value of start at which each chunk was cut
    \* ---- one evaluator object (RAGASEvaluator or SimpleEvaluator) ----
    ev_obj,       \* the object: class, config threshold, _setup_complete, _metrics
    ev_env,       \* RAGAS_AVAILABLE of modules/evaluators/ragas.py
    ev_args,      \* the arguments prediction, contexts, ground_truth of evaluate()
    ev_ret,       \* the last evaluate() call: how it ended
    \* ---- one OpenAIEmbedder object ----
    em_obj,       \* the object: config, _setup_complete, _metrics
    em_args,      \* the texts of a call and what the embedding API does per batch
    em_ret,       \* the last __call__: how it ended
    \* ---- one ChromaRetriever object and its collection ----
    rt_obj,       \* the object: _setup_complete, collection handle, _doc_count, _metrics
    rt_db,        \* the persistent collection: its documents, in insertion order
    rt_ret,       \* the last operation: which, its k, how it ended
    \* ---- one RunEngine with its adapters, store and run directory ----
    eg_cfg,       \* self.settings, and what the environment provides
    eg_eng,       \* the engine: _setup_complete and the module attributes it has
    eg_emb,       \* self.embedder
    eg_retr,      \* self.retriever
    eg_gen,       \* self.generator
    eg_eval,      \* self.evaluator
    eg_db,        \* the persistent collection of the vector store
    eg_files,     \* the run directory: file name -> JSON document
    eg_hist,      \* self._run_history
    eg_clock,     \* datetime.now()
    eg_run,       \* the current (or last) run() invocation: position and locals
    eg_args,      \* the arguments of ingest() and what goes wrong during it, and
                  \* the arguments the callers of run() and score() choose from
    eg_ing,       \* the last ingest() invocation: how it ended
    eg_life,      \* the last direct setup() or teardown() of the engine
    eg_n,         \* history: the number of invocations of each operation, of
                  \* runs that returned, of API requests that failed once or more
    \* ---- one set-up retriever driven by one or two threads ----
    th_threads,   \* the number of threads that call the retriever
    th_t,         \* per thread: position in its call, the counter it updates,
                  \* the amount, the value it read
    th_ctr,       \* _metrics["calls"], _metrics["errors"] and _doc_count
    th_done,      \* history: per counter, the sum of the amounts of the
                  \* operations that completed
    \* ---- the `config` command on one configuration file ----
    cf_file,      \* the file given by --config: empty, or its YAML document
    cf_log,       \* history: the commands run, each with its arguments, exit
                  \* status, output and the file before and after it
    \* ---- the `init` command on one project path ----
    in_dir,       \* the project path: missing, or the directory's entries
    in_log,       \* history: the commands run, each with its options, exit
                  \* status and the path before and after it
    \* ---- the `ingest` and `run` commands in a project made by `init` ----
    cl_project,   \* the template the project was made from
    cl_store,     \* the number of documents in the project's vector store
    cl_log        \* history: the commands run, each with its options, exit
                  \* status and the steps it reached

chunkVars == <<ck_pc, ck_text, ck_size, ck_overlap, ck_start, ck_chunks, ck_starts>>

evalVars == <<ev_obj, ev_env, ev_args, ev_ret>>

embVars == <<em_obj, em_args, em_ret>>

retrVars == <<rt_obj, rt_db, rt_ret>>

engVars == <<eg_cfg, eg_eng, eg_emb, eg_retr, eg_gen, eg_eval, eg_db, eg_files,
             eg_hist, eg_clock, eg_run, eg_args, eg_ing, eg_life, eg_n>>

thrVars == <<th_threads, th_t, th_ctr, th_done>>

\* the groups that stand apart from the pipeline
cfgVars == <<cf_file, cf_log>>

initVars == <<in_dir, in_log>>

cliVars == <<cl_project, cl_store, cl_log>>

restVars == <<thrVars, cfgVars, initVars, cliVars>>

vars == <<chunkVars, evalVars, embVars, retrVars, engVars, restVars>>

\* a step of one group leaves the other groups alone
OnlyChunk == UNCHANGED <<evalVars, embVars, retrVars, engVars, restVars>>
OnlyEval == UNCHANGED <<chunkVars, embVars, retrVars, engVars, restVars>>
OnlyEmb == UNCHANGED <<chunkVars, evalVars, retrVars, engVars, restVars>>
OnlyRetr == UNCHANGED <<chunkVars, evalVars, embVars, engVars, restVars>>
OnlyEngine == UNCHANGED <<chunkVars, evalVars, embVars, retrVars, restVars>>
Pipeline == <<chunkVars, evalVars, embVars, retrVars, engVars>>
OnlyThreads == UNCHANGED <<Pipeline, cfgVars, initVars, cliVars>>
OnlyConfig == UNCHANGED <<Pipeline, thrVars, initVars, cliVars>>
OnlyInit == UNCHANGED <<Pipeline, thrVars, cfgVars, cliVars>>
OnlyCli == UNCHANGED <<Pipeline, thrVars, cfgVars, initVars>>

(***************************************************************************)
(* Bounds of the model.                                                    *)
(***************************************************************************)
MaxTextLen == 5
MaxChunkSize == 3
MaxChunks == 6
MaxStrLen == 2
MaxEvalCalls == 2
MaxTexts == 3
MaxBatchSize == 3
MaxEmbedCalls == 2
MaxDocs == 3
MaxIds == 3
MaxK == 3
MaxSearches == 1
MaxRuns == 2
MaxIngests == 1
MaxIngestDocs == 2
MaxStored == 6
MaxClock == 1
MaxFaults == 1
MaxLifecycle == 2
MaxThreadOps == 4
MaxAdd == 2
MaxConfigCmds == 2
MaxPathLen == 3
MaxInitCmds == 2
MaxCliCmds == 2
MaxCliStore == 2

(***************************************************************************)
(* Python values used throughout.                                          *)
(***************************************************************************)
None == "None"

Min(a, b) == IF a <= b THEN a ELSE b
Max(a, b) == IF a >= b THEN a ELSE b

\* Characters of the modelled strings: two letters (one of them upper case)
\* and the blank.
Chars == {"a", "B", " "}

RECURSIVE SeqsUpTo(_, _)
SeqsUpTo(S, n) ==
    IF n = 0 THEN {<<>>}
    ELSE LET shorter == SeqsUpTo(S, n - 1)
         IN  shorter \cup {Append(s, c) : s \in {t \in shorter : Len(t) = n - 1}, c \in S}

\* Python's text[start:end] for a sequence: negative indices count from the
\* end, both indices are clamped to the sequence.
PyIndex(i, n) == IF i < 0 THEN Max(i + n, 0) ELSE Min(i, n)
PySlice(text, start, endp) ==
    LET lo == PyIndex(start, Len(text))
        hi == PyIndex(endp, Len(text))
    IN  IF lo < hi THEN SubSeq(text, lo + 1, hi) ELSE <<>>

(***************************************************************************)
(* RunEngine._simple_chunk_text, run_engine.py:276-293.                    *)
(***************************************************************************)
\* line 281: the early return for a text that fits in one chunk
ChunkFits(text, chunk_size) == Len(text) <= chunk_size

\* line 287: the loop condition
ChunkLoopCond(text, start) == start < Len(text)

\* line 288
ChunkEnd(start, chunk_size) == start + chunk_size

\* line 291: start = end - overlap
ChunkNextStart_NoOverlap(endp, overlap) == endp
ChunkNextStart(endp, overlap) == endp - overlap

ChunkEnter ==
    /\ ck_pc = "call"
    /\ IF ChunkFits(ck_text, ck_size)
       THEN /\ ck_chunks' = <<ck_text>>
            /\ ck_starts' = <<0>>
            /\ ck_pc' = "done"
       ELSE /\ ck_chunks' = <<>>
            /\ ck_starts' = <<>>
            /\ ck_pc' = "loop"
    /\ ck_start' = 0
    /\ UNCHANGED <<ck_text, ck_size, ck_overlap>>
    /\ OnlyChunk

\* one iteration of the while loop, lines 287-291
ChunkIter ==
    /\ ck_pc = "loop"
    /\ ChunkLoopCond(ck_text, ck_start)
    /\ Len(ck_chunks) < MaxChunks
    /\ LET endp == ChunkEnd(ck_start, ck_size)
       IN  /\ ck_chunks' = Append(ck_chunks, PySlice(ck_text, ck_start, endp))
           /\ ck_starts' = Append(ck_starts, ck_start)
           /\ ck_start' = ChunkNextStart(endp, ck_overlap)
    /\ UNCHANGED <<ck_pc, ck_text, ck_size, ck_overlap>>
    /\ OnlyChunk

\* the loop condition fails: return chunks, line 293
ChunkExit ==
    /\ ck_pc = "loop"
    /\ ~ChunkLoopCond(ck_text, ck_start)
    /\ ck_pc' = "done"
    /\ UNCHANGED <<ck_text, ck_size, ck_overlap, ck_start, ck_chunks, ck_starts>>
    /\ OnlyChunk

ChunkInit ==
    /\ ck_pc = "call"
    /\ ck_text \in SeqsUpTo({"a", "B"}, MaxTextLen)
    /\ ck_size \in 0..MaxChunkSize
    /\ ck_overlap \in 0..MaxChunkSize
    /\ ck_start = 0
    /\ ck_chunks = <<>>
    /\ ck_starts = <<>>

ChunkIdle ==
    /\ ck_pc = "idle"
    /\ ck_text = <<>>
    /\ ck_size = 0
    /\ ck_overlap = 0
    /\ ck_start = 0
    /\ ck_chunks = <<>>
    /\ ck_starts = <<>>

NextChunk == ChunkEnter \/ ChunkIter \/ ChunkExit

\* The same function as an operator, for the callers of _simple_chunk_text.
RECURSIVE ChunkLoop(_, _, _, _, _)
ChunkLoop(text, chunk_size, overlap, start, chunks) ==
    IF ChunkLoopCond(text, start) /\ Len(chunks) < MaxChunks
    THEN LET endp == ChunkEnd(start, chunk_size)
         IN  ChunkLoop(text, chunk_size, overlap, ChunkNextStart(endp, overlap),
                       Append(chunks, PySlice(text, start, endp)))
    ELSE chunks

simple_chunk_text(text, chunk_size, overlap) ==
    IF ChunkFits(text, chunk_size) THEN <<text>>
    ELSE ChunkLoop(text, chunk_size, overlap, 0, <<>>)

(***************************************************************************)
(* Strings: sequences of characters, with the str methods the code uses.   *)
(***************************************************************************)
Strings == SeqsUpTo(Chars, MaxStrLen)

\* an Optional[str]: <<>> is None, <<s>> is the string s
NoStr == <<>>
SomeStr(s) == <<s>>
\* Python truthiness of an Optional[str]: neither None nor ""
Truthy(opt) == opt # <<>> /\ opt[1] # <<>>

IsSpace(c) == c = " "

\* str.lower()
Lower(s) == [i \in 1..Len(s) |-> IF s[i] = "B" THEN "b" ELSE s[i]]

\* str.strip()
RECURSIVE LStrip(_)
LStrip(s) == IF s # <<>> /\ IsSpace(s[1]) THEN LStrip(Tail(s)) ELSE s
RECURSIVE RStrip(_)
RStrip(s) ==
    IF s # <<>> /\ IsSpace(s[Len(s)]) THEN RStrip(SubSeq(s, 1, Len(s) - 1)) ELSE s
Strip(s) == RStrip(LStrip(s))

\* str.split(): the maximal runs of non-blank characters, in order
RECURSIVE SplitFrom(_, _, _)
SplitFrom(s, word, acc) ==
    IF s = <<>> THEN (IF word = <<>> THEN acc ELSE Append(acc, word))
    ELSE IF IsSpace(s[1])
         THEN SplitFrom(Tail(s), <<>>, IF word = <<>> THEN acc ELSE Append(acc, word))
         ELSE SplitFrom(Tail(s), Append(word, s[1]), acc)
Split(s) == SplitFrom(s, <<>>, <<>>)

\* " ".join(list)
RECURSIVE JoinBlank(_)
JoinBlank(list) ==
    IF list = <<>> THEN <<>>
    ELSE IF Len(list) = 1 THEN list[1]
    ELSE list[1] \o <<" ">> \o JoinBlank(Tail(list))

Range(f) == {f[i] : i \in DOMAIN f}

(***************************************************************************)
(* Scores are exact fractions <<numerator, denominator>>, denominator > 0. *)
(***************************************************************************)
Frac(n, d) == <<n, d>>
FracGE(a, b) == a[1] * b[2] >= b[1] * a[2]
FracAdd(a, b) == <<a[1] * b[2] + b[1] * a[2], a[2] * b[2]>>
FracDivInt(a, n) == <<a[1], a[2] * n>>
FracMin(a, b) == IF FracGE(a, b) THEN b ELSE a
FracIsZero(a) == a[1] = 0

RECURSIVE FracSum(_)
FracSum(list) == IF list = <<>> THEN Frac(0, 1) ELSE FracAdd(list[1], FracSum(Tail(list)))

\* a call that returned value / a call that raised exc
\* an exception object: its type and, for an API failure, the attempt that raised it
Exc(type) == [type |-> type, attempt |-> 0]
NoExc == Exc("none")

Returned(value) == [outcome |-> "returned", value |-> value, exc |-> NoExc]
Raised(exc) == [outcome |-> "raised", value |-> <<>>, exc |-> exc]

(***************************************************************************)
(* SimpleEvaluator.evaluate, evaluators/ragas.py:267-307.                  *)
(***************************************************************************)
\* line 287
SimpleHasAnswer(prediction) ==
    IF prediction # <<>> /\ Len(Strip(prediction)) > 0 THEN Frac(1, 1) ELSE Frac(0, 1)

\* lines 290-297; the division of line 294 raises ZeroDivisionError when the
\* prediction has no word
SimpleAnswerWords(prediction) == Range(Split(Lower(prediction)))
SimpleContextWords(contexts) == Range(Split(Lower(JoinBlank(contexts))))
SimpleDividesByZero(prediction, contexts) ==
    /\ contexts # <<>> /\ prediction # <<>>
    /\ Cardinality(SimpleAnswerWords(prediction)) = 0
SimpleUsesContext(prediction, contexts) ==
    IF contexts # <<>> /\ prediction # <<>>
    THEN FracMin(Frac(1, 1),
                 Frac(Cardinality(SimpleAnswerWords(prediction)
                                    \cap SimpleContextWords(contexts)),
                      Cardinality(SimpleAnswerWords(prediction))))
    ELSE Frac(0, 1)

\* line 301
SimpleExactMatch(prediction, truth) ==
    IF Lower(Strip(prediction)) = Lower(Strip(truth)) THEN Frac(1, 1) ELSE Frac(0, 1)

\* lines 284-307: the mapping returned, or the exception raised
SimpleEvaluate(threshold, prediction, contexts, ground_truth) ==
    IF SimpleDividesByZero(prediction, contexts) THEN Raised(Exc("ZeroDivisionError"))
    ELSE
      LET base == [has_answer |-> SimpleHasAnswer(prediction),
                   uses_context |-> SimpleUsesContext(prediction, contexts)]
          results == IF Truthy(ground_truth)
                     THEN base @@ [exact_match |->
                                     SimpleExactMatch(prediction, ground_truth[1])]
                     ELSE base
          values == IF Truthy(ground_truth)
                    THEN <<results.has_answer, results.uses_context, results.exact_match>>
                    ELSE <<results.has_answer, results.uses_context>>
          overall == FracDivInt(FracSum(values), Len(values))
      IN  Returned(results @@ [overall_score |-> overall,
                               passed |-> FracGE(overall, threshold)])

(***************************************************************************)
(* RAGASEvaluator, evaluators/ragas.py:32-152, on BaseModule, base.py.     *)
(***************************************************************************)
\* BaseModule.metrics is a property without a setter (base.py:79-85): reading
\* self.metrics gives the counters' mapping, whose elements (iterating a dict
\* gives its keys) are strings; assigning self.metrics raises AttributeError.
MetricsPropertyHasSetter == FALSE
MetricsPropertyKeys == <<"calls", "total_time", "errors", "avg_time">>

\* the metric objects of the ragas library have a name; a str has none
RagasMetric(name) == [kind |-> "metric", name |-> name]
PyStr(s) == [kind |-> "str", name |-> s]
HasNameAttr(x) == x.kind = "metric"

\* what self.metrics evaluates to on a RAGASEvaluator
RagasSelfMetrics(obj) ==
    IF MetricsPropertyHasSetter THEN obj.metric_objects
    ELSE [i \in DOMAIN MetricsPropertyKeys |-> PyStr(MetricsPropertyKeys[i])]

\* RAGASEvaluator.setup, lines 41-79: the object after the call and how it ended
RagasSetup(obj, ragas_available) ==
    LET up == [obj EXCEPT !.setup_complete = TRUE]       \* super().setup(), line 43
        configured == [i \in DOMAIN obj.ragas_metrics |-> RagasMetric(obj.ragas_metrics[i])]
    IN  IF ~ragas_available THEN [obj |-> up, ret |-> Raised(Exc("ImportError"))]
        ELSE IF ~MetricsPropertyHasSetter                \* self.metrics = [], line 68
             THEN [obj |-> up, ret |-> Raised(Exc("AttributeError"))]
             ELSE [obj |-> [up EXCEPT !.metric_objects = configured],
                   ret |-> Returned(<<>>)]

\* the zero scores of the except branch, lines 148-150
RECURSIVE ZeroScores(_)
ZeroScores(metrics) ==
    IF metrics = <<>> THEN <<>>
    ELSE (metrics[1].name :> Frac(0, 1)) @@ ZeroScores(Tail(metrics))

RagasFailureResult(metrics, message) ==
    ZeroScores(metrics) @@
      [overall_score |-> Frac(0, 1), passed |-> FALSE, error |-> message]

\* lines 126-143, for the scores the backend returned (a mapping name -> score)
RECURSIVE RagasPick(_, _)
RagasPick(metrics, results) ==
    IF metrics = <<>> THEN <<>>
    ELSE IF metrics[1].name \in DOMAIN results
         THEN <<results[metrics[1].name]>> \o RagasPick(Tail(metrics), results)
         ELSE RagasPick(Tail(metrics), results)

RagasScores(metrics, results, threshold) ==
    LET picked == RagasPick(metrics, results)
        overall == IF picked # <<>> THEN FracDivInt(FracSum(picked), Len(picked))
                   ELSE Frac(0, 1)
    IN  [n \in {m.name : m \in Range(metrics)} \cap DOMAIN results |-> results[n]]
          @@ [overall_score |-> overall, passed |-> FracGE(overall, threshold)]

\* the inner _evaluate, lines 102-150. backend is what ragas.evaluate did:
\* "failed" (it raised) or a mapping of scores.
RagasInner(obj, backend, results) ==
    LET metrics == RagasSelfMetrics(obj)
        named == \A i \in DOMAIN metrics : HasNameAttr(metrics[i])
    IN  IF backend = "ok" /\ named
        THEN Returned(RagasScores(metrics, results, obj.threshold))
        \* the try block raised (the backend, or metric.name at line 128): the
        \* except branch reads metric.name of every element of self.metrics
        ELSE IF named THEN Returned(RagasFailureResult(metrics, "backend failure"))
        ELSE Raised(Exc("AttributeError"))

\* BaseModule.metrics, base.py:84: the divisor of avg_time
AvgTimeDivisor(obj) == Max(1, obj.calls)

\* BaseModule._track_metrics, base.py:65-77, around a call that ended as ret
TrackMetrics(obj, ret) ==
    IF ret.outcome = "returned" THEN [obj EXCEPT !.calls = @ + 1]
    ELSE [obj EXCEPT !.errors = @ + 1]

\* RAGASEvaluator.evaluate, lines 81-152
RagasEvaluate(obj, ragas_available, backend, results) ==
    IF ~obj.setup_complete
    THEN LET s == RagasSetup(obj, ragas_available)
         IN  IF s.ret.outcome = "raised" THEN [obj |-> s.obj, ret |-> s.ret, backend |-> "not_called"]
             ELSE LET r == RagasInner(s.obj, backend, results)
                  IN  [obj |-> TrackMetrics(s.obj, r), ret |-> r, backend |-> backend]
    ELSE LET r == RagasInner(obj, backend, results)
         IN  [obj |-> TrackMetrics(obj, r), ret |-> r, backend |-> backend]

(***************************************************************************)
(* The retry decorator of OpenAIEmbedder._embed_batch (embedders/openai.py *)
(* :36-40) and GPT4Generator._generate (generators/openai.py:73-77):       *)
(* stop_after_attempt(3), reraise=True.  A request is described by the     *)
(* number of its attempts the API fails before it answers; the failure of  *)
(* attempt i is the exception ApiError(i).                                 *)
(***************************************************************************)
StopAfterAttempt == 3

ApiError(i) == [type |-> "APIError", attempt |-> i]

\* attempts i, i+1, ... of a request whose first `fails` attempts fail
RECURSIVE RetryFrom_OneMore(_, _)
RetryFrom_OneMore(fails, i) ==
    IF i > fails THEN [attempts |-> i, ok |-> TRUE, exc |-> NoExc]
    ELSE IF i > StopAfterAttempt THEN [attempts |-> i, ok |-> FALSE, exc |-> ApiError(i)]
    ELSE RetryFrom_OneMore(fails, i + 1)

RECURSIVE RetryFrom(_, _)
RetryFrom(fails, i) ==
    IF i > fails THEN [attempts |-> i, ok |-> TRUE, exc |-> NoExc]
    ELSE IF i >= StopAfterAttempt THEN [attempts |-> i, ok |-> FALSE, exc |-> ApiError(i)]
    ELSE RetryFrom(fails, i + 1)

Retry(fails) == RetryFrom(fails, 1)

\* what the API may do with one request: fail 0 .. StopAfterAttempt + 1 times
ApiFailures == 0..(StopAfterAttempt + 1)
\* the same for a request of the engine's run(): answer at once, answer the
\* last attempt allowed, or never answer
RunFailures == {0, StopAfterAttempt - 1, StopAfterAttempt}

(***************************************************************************)
(* OpenAIEmbedder, embedders/openai.py.                                    *)
(***************************************************************************)
RECURSIVE CountChar(_, _)
CountChar(s, c) ==
    IF s = <<>> THEN 0 ELSE (IF s[1] = c THEN 1 ELSE 0) + CountChar(Tail(s), c)

\* the vector the embedding API gives a text (item.embedding, line 48)
Embedding(text) == <<CountChar(text, "a"), CountChar(text, "B"), CountChar(text, " ")>>

\* response.data for one request: one item per input, in input order
ApiEmbeddings(batch) == [i \in 1..Len(batch) |-> Embedding(batch[i])]

NewEmbedder(api_key, batch_size) ==
    [setup_complete |-> FALSE, api_key |-> api_key, batch_size |-> batch_size,
     client |-> FALSE,     \* self.client, self.model, self.batch_size are set
     calls |-> 0, errors |-> 0, total_tokens |-> 0,
     api_calls |-> 0]      \* history: requests sent to the embedding API

\* OpenAIEmbedder.setup, lines 23-34
EmbedderSetup(obj) ==
    LET up == [obj EXCEPT !.setup_complete = TRUE]        \* super().setup()
    IN  IF ~obj.api_key THEN [obj |-> up, ret |-> Raised(Exc("ValueError"))]
        ELSE [obj |-> [up EXCEPT !.client = TRUE], ret |-> Returned(<<>>)]

\* line 73: batch = texts[i:i + self.batch_size]
EmbedBatch_DropsLast(texts, i, batch_size) == PySlice(texts, i, i + batch_size - 1)
EmbedBatch(texts, i, batch_size) == PySlice(texts, i, i + batch_size)

\* the loop of _embed_all, lines 69-77, from offset i (batch number b)
RECURSIVE EmbedFrom(_, _, _, _, _, _, _)
EmbedFrom(texts, batch_size, fails, i, b, embeddings, api) ==
    IF i >= Len(texts) THEN [ret |-> Returned(embeddings), api |-> api]
    ELSE LET r == Retry(fails[b])
         IN  IF ~r.ok THEN [ret |-> Raised(r.exc), api |-> api + r.attempts]
             ELSE EmbedFrom(texts, batch_size, fails, i + batch_size, b + 1,
                            embeddings \o ApiEmbeddings(EmbedBatch(texts, i, batch_size)),
                            api + r.attempts)

\* lines 83-84: estimated_tokens
RECURSIVE EstimatedTokens(_)
EstimatedTokens(texts) ==
    IF texts = <<>> THEN 0
    ELSE Len(Split(texts[1])) * 4 + EstimatedTokens(Tail(texts))

\* OpenAIEmbedder.__call__, lines 50-88. fails[b] describes the API on batch b.
EmbedderCall(obj, texts, fails) ==
    LET s == IF obj.setup_complete THEN [obj |-> obj, ret |-> Returned(<<>>)]
             ELSE EmbedderSetup(obj)
    IN  IF s.ret.outcome = "raised" THEN s
        ELSE IF texts = <<>> THEN [obj |-> s.obj, ret |-> Returned(<<>>)]
        ELSE LET r == IF s.obj.client
                          THEN EmbedFrom(texts, s.obj.batch_size, fails, 0, 1, <<>>, 0)
                          \* self.batch_size was never set: line 72 raises
                          ELSE [ret |-> Raised(Exc("AttributeError")), api |-> 0]
                 tracked == TrackMetrics(s.obj, r.ret)
             IN  [obj |-> [tracked EXCEPT
                             !.api_calls = @ + r.api,
                             !.total_tokens = IF r.ret.outcome = "returned"
                                              THEN @ + EstimatedTokens(texts) ELSE @],
                  ret |-> r.ret]

\* the texts embedded in the model
Texts == {<<"a">>, <<"B", " ", "a">>}

EmbedArgs(texts, fails) == [texts |-> texts, fails |-> fails]
NoEmbedCall == [outcome |-> "none", value |-> <<>>, exc |-> NoExc, api |-> 0]

EmbInit ==
    /\ em_obj \in {NewEmbedder(key, bs) : key \in BOOLEAN, bs \in 1..MaxBatchSize}
    /\ em_args \in {EmbedArgs(t, f) : t \in SeqsUpTo(Texts, MaxTexts),
                                      f \in [1..MaxTexts -> ApiFailures]}
    /\ em_ret = NoEmbedCall

EmbIdle ==
    /\ em_obj = NewEmbedder(TRUE, 1)
    /\ em_args = EmbedArgs(<<>>, <<>>)
    /\ em_ret = NoEmbedCall

\* embedder(texts)
EmbCall ==
    /\ em_obj.calls + em_obj.errors < MaxEmbedCalls
    /\ LET r == EmbedderCall(em_obj, em_args.texts, em_args.fails)
       IN  /\ em_obj' = r.obj
           /\ em_ret' = [outcome |-> r.ret.outcome, value |-> r.ret.value,
                         exc |-> r.ret.exc, api |-> r.obj.api_calls - em_obj.api_calls]
    /\ UNCHANGED em_args
    /\ OnlyEmb

NextEmb == EmbCall

(***************************************************************************)
(* ChromaRetriever, retrievers/chroma.py.  The collection is the vector    *)
(* store's: it keeps the documents added, and a query returns the nearest  *)
(* ones by ascending distance.                                             *)
(***************************************************************************)
Abs(x) == IF x < 0 THEN -x ELSE x

\* the distance the store computes between two vectors
Distance(u, v) == Abs(u[1] - v[1]) + Abs(u[2] - v[2]) + Abs(u[3] - v[3])

\* line 128: 'score': 1 - results['distances'][0][i]
RetrieverScore_Distance(distance) == distance
RetrieverScore(distance) == 1 - distance

NewRetriever ==
    [setup_complete |-> FALSE,
     has_collection |-> FALSE,    \* self.client, self.collection, self._doc_count are set
     doc_count |-> 0, calls |-> 0, errors |-> 0]

EmptyDb == [docs |-> <<>>, next_id |-> 1]

\* ChromaRetriever.setup, lines 25-56
RetrieverSetup(obj, db) ==
    [obj EXCEPT !.setup_complete = TRUE, !.has_collection = TRUE,
                !.doc_count = Len(db.docs)]

RetrieverReady(obj, db) == IF obj.setup_complete THEN obj ELSE RetrieverSetup(obj, db)

\* line 81: the default metadata
DefaultMetadata(texts) == [i \in 1..Len(texts) |-> [source |-> "unknown"]]

\* ChromaRetriever.add, lines 58-92. store_ok: collection.add succeeded.
RetrieverAdd(obj, db, texts, embeddings, metadata, store_ok) ==
    LET o == RetrieverReady(obj, db)
    IN  IF texts = <<>> THEN [obj |-> o, db |-> db, ret |-> Returned(<<>>)]
        ELSE IF ~o.has_collection
             THEN [obj |-> o, db |-> db, ret |-> Raised(Exc("AttributeError"))]
        ELSE IF ~store_ok THEN [obj |-> o, db |-> db, ret |-> Raised(Exc("ChromaError"))]
        ELSE LET new == [i \in 1..Len(texts) |->
                           [id |-> db.next_id + i - 1, text |-> texts[i],
                            embedding |-> embeddings[i], metadata |-> metadata[i]]]
             IN  [obj |-> [o EXCEPT !.doc_count = @ + Len(texts)],
                  db |-> [docs |-> db.docs \o new, next_id |-> db.next_id + Len(texts)],
                  ret |-> Returned(<<>>)]

\* the store's query: the n nearest documents, nearest first
RECURSIVE NearestIndex(_, _, _, _)
NearestIndex(docs, q, i, best) ==
    IF i > Len(docs) THEN best
    ELSE NearestIndex(docs, q, i + 1,
                      IF Distance(q, docs[i].embedding) < Distance(q, docs[best].embedding)
                      THEN i ELSE best)

RECURSIVE SortByDistance(_, _)
SortByDistance(docs, q) ==
    IF docs = <<>> THEN <<>>
    ELSE LET b == NearestIndex(docs, q, 2, 1)
         IN  <<docs[b]>> \o
             SortByDistance(SubSeq(docs, 1, b - 1) \o SubSeq(docs, b + 1, Len(docs)), q)

CollectionQuery(db, q, n_results) ==
    SubSeq(SortByDistance(db.docs, q), 1, Min(n_results, Len(db.docs)))

\* line 117: n_results=min(k, self._doc_count)
RetrieverNResults(k, doc_count) == Min(k, doc_count)

\* lines 121-130: the documents returned for the store's results
RetrieverFormat(found, q) ==
    [i \in 1..Len(found) |->
       [id |-> found[i].id, text |-> found[i].text, metadata |-> found[i].metadata,
        score |-> RetrieverScore(Distance(q, found[i].embedding))]]

\* ChromaRetriever.__call__, lines 94-135.  The store's answer to a request
\* for n_results <= 0 is not this repository's: it raises (zero_raises) or
\* gives no result.
RetrieverSearch(obj, db, q, k, zero_raises) ==
    LET o == RetrieverReady(obj, db)
        n == RetrieverNResults(k, o.doc_count)
        r == IF ~o.has_collection THEN Raised(Exc("AttributeError"))
             ELSE IF n <= 0
                  THEN (IF zero_raises THEN Raised(Exc("ChromaError")) ELSE Returned(<<>>))
                  ELSE Returned(RetrieverFormat(CollectionQuery(db, q, n), q))
    IN  [obj |-> TrackMetrics(o, r), ret |-> r]

\* ChromaRetriever.delete(ids), lines 137-144
RetrieverDelete(obj, db, ids) ==
    IF ids = {} THEN [obj |-> obj, db |-> db, ret |-> Returned(<<>>)]
    ELSE IF ~obj.has_collection
         THEN [obj |-> obj, db |-> db, ret |-> Raised(Exc("AttributeError"))]
    ELSE [obj |-> obj,
          db |-> [db EXCEPT !.docs = SelectSeq(db.docs, LAMBDA d : d.id \notin ids)],
          ret |-> Returned(<<>>)]

\* ChromaRetriever.reset, lines 146-156
RetrieverReset(obj, db) ==
    IF ~obj.has_collection
    THEN [obj |-> obj, db |-> db, ret |-> Raised(Exc("AttributeError"))]
    ELSE [obj |-> [obj EXCEPT !.doc_count = 0],
          db |-> [db EXCEPT !.docs = <<>>],
          ret |-> Returned(<<>>)]

\* lines 158-161
RetrieverCount(obj) == obj.doc_count

DocTexts == Texts \cup {<<"B">>}

RetrOp(op, k, ret) ==
    [op |-> op, k |-> k, outcome |-> ret.outcome, value |-> ret.value, exc |-> ret.exc]

RetrInit ==
    /\ rt_obj = NewRetriever
    /\ rt_db = EmptyDb
    /\ rt_ret = RetrOp("none", 0, Returned(<<>>))

RetrIdle == RetrInit

\* retriever.setup()
RetrSetup ==
    /\ rt_obj' = (IF rt_obj.setup_complete THEN rt_obj ELSE RetrieverSetup(rt_obj, rt_db))
    /\ rt_ret' = RetrOp("setup", 0, Returned(<<>>))
    /\ UNCHANGED rt_db
    /\ OnlyRetr

\* retriever.add(texts, embeddings)
RetrAdd ==
    /\ \E texts \in SeqsUpTo(DocTexts, 2), store_ok \in BOOLEAN :
         /\ Len(rt_db.docs) + Len(texts) <= MaxDocs
         /\ rt_db.next_id + Len(texts) <= MaxIds + 1
         /\ LET r == RetrieverAdd(rt_obj, rt_db, texts, ApiEmbeddings(texts),
                                  DefaultMetadata(texts), store_ok)
            IN  /\ rt_obj' = r.obj
                /\ rt_db' = r.db
                /\ rt_ret' = RetrOp("add", 0, r.ret)
    /\ OnlyRetr

\* retriever(query_embedding, k)
RetrSearch ==
    /\ rt_obj.calls + rt_obj.errors < MaxSearches
    /\ \E q \in DocTexts, k \in 0..MaxK, zero_raises \in BOOLEAN :
         LET r == RetrieverSearch(rt_obj, rt_db, Embedding(q), k, zero_raises)
         IN  /\ rt_obj' = r.obj
             /\ rt_ret' = RetrOp("search", k, r.ret)
    /\ UNCHANGED rt_db
    /\ OnlyRetr

\* retriever.delete(ids)
RetrDelete ==
    /\ \E ids \in SUBSET {d.id : d \in Range(rt_db.docs)} :
         LET r == RetrieverDelete(rt_obj, rt_db, ids)
         IN  /\ rt_obj' = r.obj
             /\ rt_db' = r.db
             /\ rt_ret' = RetrOp("delete", 0, r.ret)
    /\ OnlyRetr

\* retriever.reset()
RetrReset ==
    /\ LET r == RetrieverReset(rt_obj, rt_db)
       IN  /\ rt_obj' = r.obj
           /\ rt_db' = r.db
           /\ rt_ret' = RetrOp("reset", 0, r.ret)
    /\ OnlyRetr

NextRetr == RetrSetup \/ RetrAdd \/ RetrSearch \/ RetrDelete \/ RetrReset

(***************************************************************************)
(* GPT4Generator, generators/openai.py.                                    *)
(***************************************************************************)
NewGenerator(api_key) ==
    [setup_complete |-> FALSE, api_key |-> api_key,
     client |-> FALSE,     \* self.client, self.model, self.system_prompt, ... are set
     calls |-> 0, errors |-> 0, prompt_tokens |-> 0, completion_tokens |-> 0,
     api_calls |-> 0]      \* history: requests sent to the chat-completion API

\* GPT4Generator.setup, lines 46-71
GeneratorSetup(obj) ==
    LET up == [obj EXCEPT !.setup_complete = TRUE]        \* super().setup()
    IN  IF ~obj.api_key THEN [obj |-> up, ret |-> Raised(Exc("ValueError"))]
        ELSE [obj |-> [up EXCEPT !.client = TRUE], ret |-> Returned(<<>>)]

\* a chat-completion response: the text and the token usage (<<>>: no usage)
NoUsage == <<>>
Usage(prompt_tokens, completion_tokens) ==
    <<[prompt_tokens |-> prompt_tokens, completion_tokens |-> completion_tokens]>>
Response(content, usage) == [content |-> content, usage |-> usage]

Responses == {Response(<<"a">>, Usage(1000, 500)), Response(<<" ">>, NoUsage)}

\* lines 120-146: the user message, the enumerated context block and the query
RagPrompt(prompt, context) ==
    [context |-> [i \in 1..Len(context) |-> <<i, context[i].text>>], query |-> prompt]

\* GPT4Generator._generate under its retry decorator, lines 73-96: the token
\* counters are updated by the attempt that got the response
GeneratorRequest(obj, fails, response) ==
    LET r == Retry(fails)
        sent == [obj EXCEPT !.api_calls = @ + r.attempts]
    IN  IF ~r.ok THEN [obj |-> sent, ret |-> Raised(r.exc)]
        ELSE [obj |-> IF response.usage # NoUsage
                      THEN [sent EXCEPT
                              !.prompt_tokens = @ + response.usage[1].prompt_tokens,
                              !.completion_tokens = @ + response.usage[1].completion_tokens]
                      ELSE sent,
              ret |-> Returned(response.content)]

\* GPT4Generator.__call__, lines 98-206
GeneratorCall(obj, prompt, context, fails, response) ==
    LET s == IF obj.setup_complete THEN [obj |-> obj, ret |-> Returned(<<>>)]
             ELSE GeneratorSetup(obj)
    IN  IF s.ret.outcome = "raised" THEN s
        ELSE LET r == IF s.obj.client THEN GeneratorRequest(s.obj, fails, response)
                      \* self.system_prompt was never set: line 138 raises
                      ELSE [obj |-> s.obj, ret |-> Raised(Exc("AttributeError"))]
             IN  [obj |-> TrackMetrics(r.obj, r.ret), ret |-> r.ret]

\* GPT4Generator.estimated_cost, lines 208-224, for gpt-4o-mini, in units of
\* 1e-8 dollar: per token 0.00015/1000 and 0.0006/1000 dollar
GeneratorCost(obj) == obj.prompt_tokens * 15 + obj.completion_tokens * 60

\* OpenAIEmbedder.estimated_cost, embedders/openai.py:100-113, for
\* text-embedding-3-small, in the same unit: per token 0.00002/1000 dollar
EmbedderCost(obj) == obj.total_tokens * 2

\* GPT4Generator.get_stats, lines 226-242
GeneratorStats(obj) ==
    [total_tokens |-> obj.prompt_tokens + obj.completion_tokens,
     prompt_tokens |-> obj.prompt_tokens,
     completion_tokens |-> obj.completion_tokens,
     estimated_cost |-> GeneratorCost(obj),
     calls |-> obj.calls, errors |-> obj.errors]

(***************************************************************************)
(* One evaluator object and the calls of its evaluate().                   *)
(***************************************************************************)
\* thresholds, as fractions: 0, the two defaults 0.5 (ragas.py:305) and 0.7
\* (ragas.py:139, config.py:44), and 1
Thresholds == {Frac(0, 1), Frac(1, 2), Frac(7, 10), Frac(1, 1)}

\* the scores a working backend may return for the configured metrics
BackendResults ==
    {[faithfulness |-> Frac(1, 1), answer_relevancy |-> Frac(1, 2)]}

NewEvaluator(class, threshold) ==
    [class |-> class, threshold |-> threshold, setup_complete |-> FALSE,
     calls |-> 0, errors |-> 0,
     ragas_metrics |-> <<"faithfulness", "answer_relevancy">>,
     metric_objects |-> <<>>]

NoCall == [class |-> "none", outcome |-> "none", value |-> <<>>, exc |-> NoExc,
           backend |-> "not_called"]

EvalArgs(prediction, contexts, ground_truth) ==
    [prediction |-> prediction, contexts |-> contexts, ground_truth |-> ground_truth]

EvalInit ==
    /\ ev_obj \in {NewEvaluator(c, t) : c \in {"ragas", "simple"}, t \in Thresholds}
    /\ ev_env \in BOOLEAN
    /\ ev_args \in {EvalArgs(p, c, g) :
                      p \in Strings,
                      c \in SeqsUpTo({<<"a">>, <<"b", " ", "a">>}, 1),
                      g \in {NoStr} \cup {SomeStr(t) : t \in Strings}}
    /\ ev_ret = NoCall

EvalIdle ==
    /\ ev_obj = NewEvaluator("simple", Frac(1, 2))
    /\ ev_env = FALSE
    /\ ev_args = EvalArgs(<<>>, <<>>, NoStr)
    /\ ev_ret = NoCall

\* evaluator.evaluate(query, prediction, contexts, ground_truth) on a SimpleEvaluator
EvalSimple ==
    /\ ev_obj.class = "simple"
    /\ LET r == SimpleEvaluate(ev_obj.threshold, ev_args.prediction, ev_args.contexts,
                               ev_args.ground_truth)
       IN  ev_ret' = [class |-> "simple", outcome |-> r.outcome, value |-> r.value,
                      exc |-> r.exc, backend |-> "not_called"]
    /\ UNCHANGED <<ev_obj, ev_env, ev_args>>
    /\ OnlyEval

\* evaluator.evaluate(...) on a RAGASEvaluator
EvalRagas ==
    /\ ev_obj.class = "ragas"
    /\ ev_obj.calls + ev_obj.errors < MaxEvalCalls
    /\ \E backend \in (IF ev_env THEN {"ok", "failed"} ELSE {"failed"}),
          results \in BackendResults :
         LET r == RagasEvaluate(ev_obj, ev_env, backend, results)
         IN  /\ ev_obj' = r.obj
             /\ ev_ret' = [class |-> "ragas", outcome |-> r.ret.outcome,
                           value |-> r.ret.value, exc |-> r.ret.exc,
                           backend |-> r.backend]
    /\ UNCHANGED <<ev_env, ev_args>>
    /\ OnlyEval

NextEval == EvalSimple \/ EvalRagas

(***************************************************************************)
(* RunEngine, modules/run_engine.py, with its four adapters, the vector    *)
(* store's collection and the run directory.  The engine is one whose      *)
(* construction (lines 99-126) completed; self.langfuse_enabled is either  *)
(* value.  Wall-clock durations are not modelled: the latency figures of a *)
(* result and the timestamp of a trace entry are left out.  The Langfuse   *)
(* client only observes a run; its calls are taken to return.              *)
(***************************************************************************)
EvalBackends == {[metric |-> "ragas", ragas_available |-> TRUE],
                 [metric |-> "ragas", ragas_available |-> FALSE],
                 [metric |-> "exact_match", ragas_available |-> TRUE]}

ChunkSizes == {2}
ChunkOverlaps == {0, 1}
TopKs == {2}
EmbedBatchSizes == {2}

EngineConfigs(langfuse, save_runs, overlaps) ==
    {[langfuse_enabled |-> l, save_runs |-> s, emb_key |-> ek, gen_key |-> gk,
      emb_provider |-> "openai", retr_provider |-> "chroma", gen_provider |-> "openai",
      metric |-> b.metric, ragas_available |-> b.ragas_available,
      chunk_size |-> c, chunk_overlap |-> o, top_k |-> t, embed_batch |-> e,
      threshold |-> Frac(7, 10)] :
        l \in langfuse, s \in save_runs, ek \in BOOLEAN, gk \in BOOLEAN,
        b \in EvalBackends, c \in ChunkSizes, o \in overlaps, t \in TopKs,
        e \in EmbedBatchSizes}

\* the engine before setup(): no module attribute exists
NewEngine == [setup_complete |-> FALSE, mods |-> {}]

\* the provider names of the registries, lines 81-97
EMBEDDER_REGISTRY == {"openai"}
RETRIEVER_REGISTRY == {"chroma"}
GENERATOR_REGISTRY == {"openai"}
EVALUATOR_REGISTRY == {"ragas", "simple", "exact_match"}

\* lines 138, 146, 154, 162: ValueError(f"Unknown {role}: {provider}")
UnknownProvider_Unnamed(role, provider) ==
    [type |-> "ValueError", attempt |-> 0, role |-> role, provider |-> "provider"]
UnknownProvider(role, provider) ==
    [type |-> "ValueError", attempt |-> 0, role |-> role, provider |-> provider]

\* the evaluator classes of EVALUATOR_REGISTRY, lines 92-96
EvaluatorClass(metric) == IF metric = "ragas" THEN "ragas" ELSE "simple"

\* evaluator_class(config).setup(), lines 161-165
EvaluatorSetup(cfg) ==
    LET new == NewEvaluator(EvaluatorClass(cfg.metric), cfg.threshold)
    IN  IF new.class = "ragas" THEN RagasSetup(new, cfg.ragas_available)
        ELSE [obj |-> [new EXCEPT !.setup_complete = TRUE], ret |-> Returned(<<>>)]

\* RunEngine.setup, lines 128-168, called with setup_complete false.  m is
\* the engine with its modules [eng, emb, retr, gen, eval]; a module whose
\* setup raises has been assigned, the later ones are what they were.
EngineSetup(cfg, db, m) ==
    LET e == EmbedderSetup(NewEmbedder(cfg.emb_key, cfg.embed_batch))
        r == RetrieverSetup(NewRetriever, db)
        g == GeneratorSetup(NewGenerator(cfg.gen_key))
        v == EvaluatorSetup(cfg)
        m1 == [m EXCEPT !.emb = e.obj, !.eng.mods = @ \cup {"embedder"}]
        m2 == [m1 EXCEPT !.retr = r, !.eng.mods = @ \cup {"retriever"}]
        m3 == [m2 EXCEPT !.gen = g.obj, !.eng.mods = @ \cup {"generator"}]
        m4 == [m3 EXCEPT !.eval = v.obj, !.eng.mods = @ \cup {"evaluator"}]
    IN  IF cfg.emb_provider \notin EMBEDDER_REGISTRY
        THEN [m |-> m, ret |-> Raised(UnknownProvider("embedder", cfg.emb_provider))]
        ELSE IF e.ret.outcome = "raised" THEN [m |-> m1, ret |-> e.ret]
        ELSE IF cfg.retr_provider \notin RETRIEVER_REGISTRY
        THEN [m |-> m1, ret |-> Raised(UnknownProvider("retriever", cfg.retr_provider))]
        ELSE IF cfg.gen_provider \notin GENERATOR_REGISTRY
        THEN [m |-> m2, ret |-> Raised(UnknownProvider("generator", cfg.gen_provider))]
        ELSE IF g.ret.outcome = "raised" THEN [m |-> m3, ret |-> g.ret]
        ELSE IF cfg.metric \notin EVALUATOR_REGISTRY
        THEN [m |-> m3, ret |-> Raised(UnknownProvider("evaluator", cfg.metric))]
        ELSE IF v.ret.outcome = "raised" THEN [m |-> m4, ret |-> v.ret]
        ELSE [m |-> [m4 EXCEPT !.eng.setup_complete = TRUE], ret |-> Returned(<<>>)]

\* lines 310-311 and 208-209: if not self._setup_complete: self.setup()
EngineReady(cfg, db, m) ==
    IF m.eng.setup_complete THEN [m |-> m, ret |-> Returned(<<>>)]
    ELSE EngineSetup(cfg, db, m)

\* the engine with its modules, as one value
Modules == [eng |-> eg_eng, emb |-> eg_emb, retr |-> eg_retr, gen |-> eg_gen,
            eval |-> eg_eval]

\* optional values: None is <<>>, a value v is <<v>>
PyNone == <<>>
Some(v) == <<v>>
\* line 366: k or self.settings.pipeline.top_k
OrDefault(k, default) == IF k = PyNone \/ k[1] = 0 THEN default ELSE k[1]

\* datetime values and their isoformat()
Datetime(t) == <<"datetime", t>>
IsoFormat(d) == <<"iso", d[2]>>

\* _generate_run_id, lines 170-174: the first 12 hex digits of the md5 of
\* query + timestamp, taken as one identifier per (query, timestamp)
GenerateRunId(query, now) == <<query, now>>

\* _trace, lines 176-194
TraceEntry(step, data) == [step |-> step, data |-> data]

\* round(x, 5) of an amount in units of 1e-8 dollar
Round5(units) == ((units + 500) \div 1000) * 1000

\* _estimate_cost, lines 569-573
EstimateCost(emb, gen) == Round5(EmbedderCost(emb) + GeneratorCost(gen))

\* lines 458-479: the RunResult
AvgScore_First(docs) == IF docs = <<>> THEN Frac(0, 1) ELSE Frac(docs[1].score, 1)
AvgScore(docs) ==
    IF docs = <<>> THEN Frac(0, 1)
    ELSE FracDivInt(FracSum([i \in 1..Len(docs) |-> Frac(docs[i].score, 1)]), Len(docs))

RunResult(run, generator_stats, estimated_cost, langfuse_enabled) ==
    [run_id |-> run.run_id, query |-> run.query, answer |-> run.answer,
     contexts |-> run.retrieved_docs,
     metrics |-> [retrieval |-> [num_contexts |-> Len(run.retrieved_docs),
                                 avg_score |-> AvgScore(run.retrieved_docs)],
                  generator |-> generator_stats,
                  estimated_cost |-> estimated_cost,
                  langfuse_enabled |-> langfuse_enabled],
     trace |-> run.trace_log,
     timestamp |-> run.timestamp]

\* RunResult.to_dict, lines 73-78
ToDict_NoContexts(result) == [result EXCEPT !.timestamp = IsoFormat(@), !.contexts = <<>>]
ToDict(result) == [result EXCEPT !.timestamp = IsoFormat(@)]

\* json.dump / json.load on the dictionary of a result: strings, numbers,
\* lists and objects are written and read as themselves, None as null
JsonNull == [json |-> "null"]
JsonOf(opt) == IF opt = PyNone THEN JsonNull ELSE [json |-> "number", v |-> opt[1]]
PyOf(j) == IF j = JsonNull THEN PyNone ELSE Some(j.v)
JsonDump(d) == [d EXCEPT !.metrics.estimated_cost = JsonOf(@)]
JsonLoad(doc) == [doc EXCEPT !.metrics.estimated_cost = PyOf(@)]

\* line 577: run_dir / f"run_{result.run_id}.json"
RunFile(run_id) == <<"run_", run_id, ".json">>

\* _save_run, lines 575-582
SaveRun(files, result) == (RunFile(result.run_id) :> JsonDump(ToDict(result))) @@ files

\* run_dir.glob(f"run_{run_id}*.json"): identifiers have one length, so an
\* identifier is a prefix of another only if it is that identifier
GlobMatches(files, run_id) == {f \in DOMAIN files : f[2] = run_id}

\* read_run_result, cli/utils.py:144-157
read_run_result(files, run_id) ==
    IF RunFile(run_id) \in DOMAIN files THEN Some(JsonLoad(files[RunFile(run_id)]))
    ELSE LET matches == GlobMatches(files, run_id)
         IN  IF matches # {} THEN Some(JsonLoad(files[CHOOSE f \in matches : TRUE]))
             ELSE PyNone

(***************************************************************************)
(* RunEngine.ingest, lines 196-274.                                        *)
(***************************************************************************)
StrDoc(text) == [kind |-> "str", text |-> text, metadata |-> PyNone]
DictDoc(text, metadata) == [kind |-> "dict", text |-> text, metadata |-> metadata]
OtherDoc == [kind |-> "other", text |-> <<>>, metadata |-> PyNone]

\* lines 224-233: texts and metadata_list of a batch that starts at offset i
RECURSIVE BatchExtract(_, _, _, _)
BatchExtract(batch, i, texts, metadata_list) ==
    IF batch = <<>> THEN [texts |-> texts, metadata_list |-> metadata_list]
    ELSE LET doc == Head(batch)
         IN  IF doc.kind = "str"
             THEN BatchExtract(Tail(batch), i, Append(texts, doc.text),
                               Append(metadata_list,
                                      [source |-> "manual", index |-> i + (Len(texts) + 1) - 1]))
             ELSE IF doc.kind = "dict"
             THEN BatchExtract(Tail(batch), i, Append(texts, doc.text),
                               Append(metadata_list,
                                      IF doc.metadata = PyNone THEN [source |-> "manual"]
                                      ELSE doc.metadata[1]))
             ELSE BatchExtract(Tail(batch), i, texts, metadata_list)

\* line 249: "total_chunks": len(chunks)
TotalChunks_OfBatch(chunks, chunked_texts) == Len(chunked_texts) + Len(chunks)
TotalChunks(chunks, chunked_texts) == Len(chunks)

\* lines 246-250: {**meta, "chunk_index": j, "total_chunks": ...}
ChunkMetadata(meta, j, total) == [chunk_index |-> j, total_chunks |-> total] @@ meta

\* lines 242-250: chunked_texts and chunked_metadata of a batch
RECURSIVE BatchChunks(_, _, _, _, _, _)
BatchChunks(texts, metadata_list, chunk_size, chunk_overlap, chunked_texts, chunked_metadata) ==
    IF texts = <<>> \/ metadata_list = <<>>
    THEN [texts |-> chunked_texts, metadata |-> chunked_metadata]
    ELSE LET chunks == simple_chunk_text(Head(texts), chunk_size, chunk_overlap)
             metas == [j \in 1..Len(chunks) |->
                         ChunkMetadata(Head(metadata_list), j - 1,
                                       TotalChunks(chunks, chunked_texts))]
         IN  BatchChunks(Tail(texts), Tail(metadata_list), chunk_size, chunk_overlap,
                         chunked_texts \o chunks, chunked_metadata \o metas)

\* what goes wrong during an ingest: nothing, the embedding API on the
\* requests of one batch, or the store when one batch is added
NoFailures == [i \in 1..(MaxIngestDocs * MaxChunks) |-> 0]
FailScript(j, f) == [i \in 1..(MaxIngestDocs * MaxChunks) |-> IF i = j THEN f ELSE 0]
NoFault == [kind |-> "none", batch |-> 0, fails |-> NoFailures]
Faults ==
    {NoFault}
    \cup {[kind |-> "embed", batch |-> b, fails |-> FailScript(j, f)] :
            b \in 1..2, j \in 1..2, f \in {1, StopAfterAttempt}}
    \cup {[kind |-> "store", batch |-> b, fails |-> NoFailures] : b \in 1..2}

\* lines 220-250 for one batch: its chunked_texts and chunked_metadata
BatchChunksOf(ex, cfg) ==
    BatchChunks(ex.texts, ex.metadata_list, cfg.chunk_size, cfg.chunk_overlap, <<>>, <<>>)
BatchChunked(cfg, batch, i) == BatchChunksOf(BatchExtract(batch, i, <<>>, <<>>), cfg)

\* the embedding API during batch b
BatchScript(fault, b) ==
    IF fault.kind = "embed" /\ fault.batch = b THEN fault.fails ELSE NoFailures
\* the store during batch b
BatchStoreOk(fault, b) == ~(fault.kind = "store" /\ fault.batch = b)

\* the state of an ingest(): the modules, the collection, total_chunks
IngestState(m, db, total_chunks) == [m |-> m, db |-> db, total_chunks |-> total_chunks]
IngestEnd_RolledBack(st, ret) ==
    [m |-> st.m, db |-> EmptyDb, total_chunks |-> st.total_chunks, ret |-> ret]
IngestEnd(st, ret) ==
    [m |-> st.m, db |-> st.db, total_chunks |-> st.total_chunks, ret |-> ret]

\* the loop over the batches, lines 217-258, from offset i (batch number b)
RECURSIVE IngestFrom(_, _, _, _, _, _, _)
RECURSIVE IngestEmbed(_, _, _, _, _, _, _, _)
RECURSIVE IngestAdd(_, _, _, _, _, _, _, _, _)
RECURSIVE IngestNext(_, _, _, _, _, _, _, _, _)

IngestFrom(cfg, documents, batch_size, fault, i, b, st) ==
    IF i >= Len(documents) THEN IngestEnd(st, Returned(<<>>))
    ELSE IngestEmbed(cfg, documents, batch_size, fault, i, b, st,
                     BatchChunked(cfg, PySlice(documents, i, i + batch_size), i))

\* line 254: embeddings = self.embedder(chunked_texts)
IngestEmbed(cfg, documents, batch_size, fault, i, b, st, ch) ==
    IngestAdd(cfg, documents, batch_size, fault, i, b, st, ch,
              EmbedderCall(st.m.emb, ch.texts, BatchScript(fault, b)))

\* line 257: self.retriever.add(chunked_texts, embeddings, chunked_metadata)
IngestAdd(cfg, documents, batch_size, fault, i, b, st, ch, e) ==
    IF e.ret.outcome = "raised"
    THEN IngestEnd([st EXCEPT !.m.emb = e.obj], e.ret)
    ELSE IngestNext(cfg, documents, batch_size, fault, i, b,
                    [st EXCEPT !.m.emb = e.obj], ch,
                    RetrieverAdd(st.m.retr, st.db, ch.texts, e.ret.value, ch.metadata,
                                 BatchStoreOk(fault, b)))

\* line 258: total_chunks += len(chunked_texts), and the next batch
IngestNext(cfg, documents, batch_size, fault, i, b, st, ch, a) ==
    IF a.ret.outcome = "raised"
    THEN IngestEnd([st EXCEPT !.m.retr = a.obj], a.ret)
    ELSE IngestFrom(cfg, documents, batch_size, fault, i + batch_size, b + 1,
                    IngestState([st.m EXCEPT !.retr = a.obj], a.db,
                                st.total_chunks + Len(ch.texts)))

\* lines 262-268: stats
IngestStats(documents, r) ==
    [m |-> r.m, db |-> r.db,
     ret |-> IF r.ret.outcome = "raised" THEN r.ret
             ELSE Returned([documents_processed |-> Len(documents),
                            chunks_created |-> r.total_chunks,
                            retriever_count |-> RetrieverCount(r.m.retr)])]

IngestWhenReady(cfg, s, db, documents, batch_size, fault) ==
    IF s.ret.outcome = "raised" THEN [m |-> s.m, db |-> db, ret |-> s.ret]
    ELSE IngestStats(documents,
                     IngestFrom(cfg, documents, batch_size, fault, 0, 1,
                                IngestState(s.m, db, 0)))

\* RunEngine.ingest
EngineIngest(cfg, m, db, documents, batch_size, fault) ==
    IngestWhenReady(cfg, EngineReady(cfg, db, m), db, documents, batch_size, fault)

(***************************************************************************)
(* The engine's operations.  run() is one action per pipeline step; no     *)
(* other operation of the engine starts while a run() is in progress.      *)
(***************************************************************************)
Queries == {<<"a">>, <<"B">>}
KArgs == {PyNone, Some(0), Some(1)}
IngestDocs == {StrDoc(<<"a">>), StrDoc(<<"B", " ", "a">>),
               DictDoc(<<"B">>, Some([source |-> "file"])),
               DictDoc(<<"a">>, PyNone), OtherDoc}

NoFiles == <<>>

\* the token counters of the embedder and the generator
NoTokens == [total_tokens |-> 0, prompt_tokens |-> 0, completion_tokens |-> 0]
TokensOf(m) == [total_tokens |-> m.emb.total_tokens,
                prompt_tokens |-> m.gen.prompt_tokens,
                completion_tokens |-> m.gen.completion_tokens]

\* how a score() invocation ended: not (yet), returned value, raised exc
NoScore == [outcome |-> "none", value |-> <<>>, exc |-> NoExc]

\* the sum of calls and errors of a module: its invocations
Invocations(obj) == obj.calls + obj.errors

IdleRun ==
    [pc |-> "idle", query |-> <<>>, k |-> PyNone, run_id |-> <<>>,
     timestamp |-> Datetime(0), query_embedding |-> <<>>, retrieved_docs |-> <<>>,
     answer |-> <<>>, generator_stats |-> PyNone, trace_log |-> <<>>,
     result |-> PyNone, exc |-> NoExc,
     \* history of the invocation
     steps |-> <<>>,        \* the steps executed, in order
     failed |-> "none",     \* the step that raised
     requests |-> <<>>,     \* the API requests made, with their attempts
     before |-> [hist |-> <<>>, files |-> NoFiles, tokens |-> NoTokens],
     \* the score() invocation that made this run() call, if one did
     caller |-> "run", ground_truth |-> NoStr,
     evals |-> <<>>,        \* history: the evaluate() calls made, in order
     score |-> NoScore]

IngestArgs(documents, batch_size, fault) ==
    [documents |-> documents, batch_size |-> batch_size, fault |-> fault]

\* what the callers of run() and score() choose from: the queries, the k
\* arguments, and the number of API requests that may fail
RunArgs(queries, ks, faults) == [queries |-> queries, ks |-> ks, faults |-> faults]

NoIngest == [outcome |-> "none", value |-> <<>>, exc |-> NoExc, added |-> <<>>,
             count_before |-> 0]

\* an API request that fails at least once uses up one of the MaxFaults
FaultAllowed(fails) == fails = 0 \/ eg_n.faults < eg_args.faults
CountFault(n, fails) == IF fails = 0 THEN n ELSE [n EXCEPT !.faults = @ + 1]

\* score() is between its run() and its evaluate(), lines 520-541
ScorePending ==
    eg_run.caller = "score" /\ eg_run.pc = "returned" /\ eg_run.score.outcome = "none"

RunFinished == eg_run.pc \in {"idle", "returned", "raised"} /\ ~ScorePending

\* the successor of a step that returned, lines 338-490
StepAfter_SkipsRetrieve(step) ==
    IF step = "embed" THEN "generate"
    ELSE IF step = "retrieve" THEN "generate"
    ELSE IF step = "generate" THEN "finalize" ELSE "returned"
StepAfter(step) ==
    IF step = "embed" THEN "retrieve"
    ELSE IF step = "retrieve" THEN "generate"
    ELSE IF step = "generate" THEN "finalize" ELSE "returned"

\* lines 492-503: except Exception: ... raise.  The run history and the run
\* directory after a step raised.
HistoryOnFailure_Partial(hist, run) ==
    Append(hist, RunResult(run, PyNone, PyNone, FALSE))
HistoryOnFailure(hist, run) == hist
FilesOnFailure(files, run) == files

\* the run record after `step` raised exc
RunRaised(run, step, exc) ==
    [run EXCEPT !.pc = "raised", !.exc = exc, !.failed = step,
                !.steps = Append(@, step),
                \* line 520: score() has no handler around its run()
                !.score = IF run.caller = "score" THEN Raised(exc) ELSE @]

\* an API request as the history keeps it
Request(step, fails, attempts, answer, ret) ==
    [step |-> step, fails |-> fails, attempts |-> attempts,
     answer |-> answer,     \* what the API answers once it answers
     outcome |-> ret.outcome, exc |-> ret.exc, value |-> ret.value]

SetModules(m) ==
    /\ eg_eng' = m.eng
    /\ eg_emb' = m.emb
    /\ eg_retr' = m.retr
    /\ eg_gen' = m.gen
    /\ eg_eval' = m.eval

\* run(query, k): lines 310-336, up to the try block, called by `caller`
RunEnter(caller, query, k, ground_truth, dt) ==
    /\ eg_clock + dt <= MaxClock
    /\ eg_clock' = eg_clock + dt
    /\ LET s == EngineReady(eg_cfg, eg_db, Modules)
           call == [IdleRun EXCEPT !.query = query, !.k = k,
                                   !.caller = caller, !.ground_truth = ground_truth,
                                   !.before = [hist |-> eg_hist, files |-> eg_files,
                                               tokens |-> TokensOf(s.m)]]
       IN  /\ SetModules(s.m)
           /\ eg_run' = IF s.ret.outcome = "raised"
                        THEN [call EXCEPT !.pc = "raised", !.exc = s.ret.exc,
                                          !.failed = "setup",
                                          !.score = IF caller = "score"
                                                    THEN Raised(s.ret.exc) ELSE @]
                        ELSE [call EXCEPT !.pc = "embed",
                                          !.run_id = GenerateRunId(query, eg_clock'),
                                          !.timestamp = Datetime(eg_clock')]
    /\ eg_n' = [eg_n EXCEPT !.runs = @ + 1]
    /\ UNCHANGED <<eg_cfg, eg_life, eg_db, eg_files, eg_hist, eg_args, eg_ing>>
    /\ OnlyEngine

\* run(query, k)
RunStart ==
    /\ RunFinished
    /\ eg_n.runs < MaxRuns
    /\ \E query \in eg_args.queries, k \in eg_args.ks, dt \in 0..1 :
         RunEnter("run", query, k, NoStr, dt)

\* step 1, lines 339-363: query_embedding = self.embedder([query])[0]
RunEmbed ==
    /\ eg_run.pc = "embed"
    /\ \E fails \in RunFailures :
         /\ FaultAllowed(fails)
         /\ eg_n' = CountFault(eg_n, fails)
         /\ LET r == EmbedderCall(eg_emb, <<eg_run.query>>, <<fails>>)
                req == Request("embed", fails, r.obj.api_calls - eg_emb.api_calls,
                               ApiEmbeddings(<<eg_run.query>>), r.ret)
                run == [eg_run EXCEPT !.requests = Append(@, req)]
            IN  /\ eg_emb' = r.obj
                /\ IF r.ret.outcome = "raised"
                   THEN /\ eg_run' = RunRaised(run, "embed", r.ret.exc)
                        /\ eg_hist' = HistoryOnFailure(eg_hist, run)
                        /\ eg_files' = FilesOnFailure(eg_files, run)
                   ELSE /\ eg_run' =
                             [run EXCEPT
                                !.pc = StepAfter("embed"),
                                !.steps = Append(@, "embed"),
                                !.query_embedding = r.ret.value[1],
                                !.trace_log =
                                   Append(@, TraceEntry("embed_query",
                                             [query |-> eg_run.query,
                                              embedding_dim |-> Len(r.ret.value[1])]))]
                        /\ UNCHANGED <<eg_hist, eg_files>>
    /\ UNCHANGED <<eg_cfg, eg_life, eg_eng, eg_retr, eg_gen, eg_eval, eg_db, eg_clock, eg_args,
                   eg_ing>>
    /\ OnlyEngine

\* step 2, lines 365-391: retrieved_docs = self.retriever(query_embedding, k=k)
RunRetrieve ==
    /\ eg_run.pc = "retrieve"
    /\ \E zero_raises \in BOOLEAN :
         LET k == OrDefault(eg_run.k, eg_cfg.top_k)
             r == RetrieverSearch(eg_retr, eg_db, eg_run.query_embedding, k, zero_raises)
         IN  /\ eg_retr' = r.obj
             /\ IF r.ret.outcome = "raised"
                THEN /\ eg_run' = RunRaised(eg_run, "retrieve", r.ret.exc)
                     /\ eg_hist' = HistoryOnFailure(eg_hist, eg_run)
                     /\ eg_files' = FilesOnFailure(eg_files, eg_run)
                ELSE /\ eg_run' =
                          [eg_run EXCEPT
                             !.pc = StepAfter("retrieve"),
                             !.steps = Append(@, "retrieve"),
                             !.retrieved_docs = r.ret.value,
                             !.trace_log =
                                Append(@, TraceEntry("retrieve",
                                          [k |-> k, num_retrieved |-> Len(r.ret.value)]))]
                     /\ UNCHANGED <<eg_hist, eg_files>>
    /\ UNCHANGED <<eg_cfg, eg_life, eg_eng, eg_emb, eg_gen, eg_eval, eg_db, eg_clock, eg_args,
                   eg_ing, eg_n>>
    /\ OnlyEngine

\* step 3, lines 393-440: answer = self.generator(query, context=retrieved_docs, ...)
RunGenerate ==
    /\ eg_run.pc = "generate"
    /\ \E fails \in RunFailures, response \in Responses :
         /\ FaultAllowed(fails)
         /\ eg_n' = CountFault(eg_n, fails)
         /\ LET r == GeneratorCall(eg_gen, eg_run.query, eg_run.retrieved_docs, fails, response)
                req == Request("generate", fails, r.obj.api_calls - eg_gen.api_calls,
                               response.content, r.ret)
                run == [eg_run EXCEPT !.requests = Append(@, req)]
            IN  /\ eg_gen' = r.obj
                /\ IF r.ret.outcome = "raised"
                   THEN /\ eg_run' = RunRaised(run, "generate", r.ret.exc)
                        /\ eg_hist' = HistoryOnFailure(eg_hist, run)
                        /\ eg_files' = FilesOnFailure(eg_files, run)
                   ELSE /\ eg_run' =
                             [run EXCEPT
                                !.pc = StepAfter("generate"),
                                !.steps = Append(@, "generate"),
                                !.answer = r.ret.value,
                                !.generator_stats = Some(GeneratorStats(r.obj)),
                                !.trace_log =
                                   Append(@, TraceEntry("generate",
                                             [answer_length |-> Len(r.ret.value)]))]
                        /\ UNCHANGED <<eg_hist, eg_files>>
    /\ UNCHANGED <<eg_cfg, eg_life, eg_eng, eg_emb, eg_retr, eg_eval, eg_db, eg_clock, eg_args,
                   eg_ing>>
    /\ OnlyEngine

\* line 487: self._run_history.append(result)
HistoryAppend_Front(hist, result) == <<result>> \o hist
HistoryAppend(hist, result) == Append(hist, result)

\* step 4, lines 442-490: the result, _save_run, the run history, return
RunFinalize ==
    /\ eg_run.pc = "finalize"
    /\ LET estimated_cost == IF eg_cfg.langfuse_enabled THEN PyNone
                             ELSE Some(EstimateCost(eg_emb, eg_gen))
           result == RunResult(eg_run, eg_run.generator_stats[1], estimated_cost,
                               eg_cfg.langfuse_enabled)
       IN  /\ eg_files' = IF eg_cfg.save_runs THEN SaveRun(eg_files, result) ELSE eg_files
           /\ eg_hist' = HistoryAppend(eg_hist, result)
           /\ eg_run' = [eg_run EXCEPT !.pc = StepAfter("finalize"),
                                       !.steps = Append(@, "finalize"),
                                       !.result = Some(result)]
    /\ eg_n' = [eg_n EXCEPT !.returned = @ + 1]
    /\ UNCHANGED <<eg_cfg, eg_life, eg_eng, eg_emb, eg_retr, eg_gen, eg_eval, eg_db,
                   eg_clock, eg_args, eg_ing>>
    /\ OnlyEngine

\* ingest(documents, batch_size)
Ingest ==
    /\ RunFinished
    /\ eg_n.ingests < MaxIngests
    /\ LET r == EngineIngest(eg_cfg, Modules, eg_db, eg_args.documents,
                             eg_args.batch_size, eg_args.fault)
       IN  /\ Len(r.db.docs) <= MaxStored
           /\ SetModules(r.m)
           /\ eg_db' = r.db
           /\ eg_ing' = [outcome |-> r.ret.outcome, value |-> r.ret.value,
                         exc |-> r.ret.exc,
                         added |-> SubSeq(r.db.docs, Len(eg_db.docs) + 1, Len(r.db.docs)),
                         count_before |-> Len(eg_db.docs)]
    /\ eg_n' = [eg_n EXCEPT !.ingests = @ + 1]
    /\ UNCHANGED <<eg_cfg, eg_life, eg_files, eg_hist, eg_clock, eg_run, eg_args>>
    /\ OnlyEngine

(***************************************************************************)
(* RunEngine.score, lines 505-567, and the engine's setup() and teardown() *)
(* called directly.                                                        *)
(***************************************************************************)
GroundTruths == {NoStr, SomeStr(<<"a">>)}

\* lines 536-541: self.evaluator.evaluate(query, prediction, contexts, ground_truth)
EvaluatorEvaluate(obj, cfg, prediction, contexts, ground_truth, backend, results) ==
    IF obj.class = "simple"
    THEN [obj |-> obj,
          ret |-> SimpleEvaluate(obj.threshold, prediction, contexts, ground_truth)]
    ELSE LET r == RagasEvaluate(obj, cfg.ragas_available, backend, results)
         IN  [obj |-> r.obj, ret |-> r.ret]

\* line 539: [doc["text"] for doc in result.contexts]
ContextTexts_Reversed(contexts) ==
    [i \in 1..Len(contexts) |-> contexts[Len(contexts) + 1 - i].text]
ContextTexts(contexts) == [i \in 1..Len(contexts) |-> contexts[i].text]

\* lines 560-567: the combined record
ScoreRecord(result, eval_scores) ==
    [run_id |-> result.run_id, query |-> result.query, answer |-> result.answer,
     evaluation |-> eval_scores, metrics |-> result.metrics,
     timestamp |-> IsoFormat(result.timestamp)]

\* an evaluate() call as the history keeps it
EvalCall(prediction, contexts, ground_truth, ret) ==
    [prediction |-> prediction, contexts |-> contexts, ground_truth |-> ground_truth,
     outcome |-> ret.outcome, exc |-> ret.exc, value |-> ret.value]

\* score(query, ground_truth, k): line 520, result = self.run(query, k=k)
ScoreStart ==
    /\ RunFinished
    /\ eg_n.runs < MaxRuns
    /\ \E query \in eg_args.queries, k \in eg_args.ks, truth \in GroundTruths,
          dt \in 0..1 :
         RunEnter("score", query, k, truth, dt)

\* score(): lines 522-567, once its run() has returned
ScoreEvaluate ==
    /\ ScorePending
    /\ \E backend \in {"ok", "failed"}, results \in BackendResults :
         LET result == eg_run.result[1]
             contexts == ContextTexts(result.contexts)
             r == EvaluatorEvaluate(eg_eval, eg_cfg, result.answer, contexts,
                                    eg_run.ground_truth, backend, results)
         IN  /\ eg_eval' = r.obj
             /\ eg_run' =
                  [eg_run EXCEPT
                     !.evals = Append(@, EvalCall(result.answer, contexts,
                                                  eg_run.ground_truth, r.ret)),
                     !.score = IF r.ret.outcome = "raised" THEN Raised(r.ret.exc)
                               ELSE Returned(ScoreRecord(result, r.ret.value))]
    /\ UNCHANGED <<eg_cfg, eg_life, eg_eng, eg_emb, eg_retr, eg_gen, eg_db, eg_files,
                   eg_hist, eg_clock, eg_args, eg_ing, eg_n>>
    /\ OnlyEngine

\* BaseModule.teardown, base.py:57-63
ModuleTeardown(obj) == [obj EXCEPT !.setup_complete = FALSE]

AllModules == {"embedder", "retriever", "generator", "evaluator"}

\* RunEngine.teardown, lines 588-602: the list of lines 592-597 reads the four
\* module attributes before hasattr is asked, so an engine that lacks one of
\* them raises AttributeError
EngineTeardown(m) ==
    IF m.eng.mods # AllModules THEN [m |-> m, ret |-> Raised(Exc("AttributeError"))]
    ELSE [m |-> [eng |-> [m.eng EXCEPT !.setup_complete = FALSE],
                 emb |-> ModuleTeardown(m.emb), retr |-> ModuleTeardown(m.retr),
                 gen |-> ModuleTeardown(m.gen), eval |-> ModuleTeardown(m.eval)],
          ret |-> Returned(<<>>)]

\* a direct setup() or teardown() as the history keeps it: how it ended, the
\* engine before it, and whether it left the engine and its modules as they were
NoLife == [op |-> "none", outcome |-> "none", exc |-> NoExc, before |-> NewEngine,
           same |-> TRUE]
LifeCall(op, r, m) ==
    [op |-> op, outcome |-> r.ret.outcome, exc |-> r.ret.exc, before |-> m.eng,
     same |-> (r.m = m)]

\* engine.setup(); lines 130-131 return at once when setup is complete
Setup ==
    /\ RunFinished
    /\ eg_n.lifecycle < MaxLifecycle
    /\ LET r == EngineReady(eg_cfg, eg_db, Modules)
       IN  /\ SetModules(r.m)
           /\ eg_life' = LifeCall("setup", r, Modules)
    /\ eg_n' = [eg_n EXCEPT !.lifecycle = @ + 1]
    /\ UNCHANGED <<eg_cfg, eg_db, eg_files, eg_hist, eg_clock, eg_run, eg_args, eg_ing>>
    /\ OnlyEngine

\* engine.teardown()
Teardown ==
    /\ RunFinished
    /\ eg_n.lifecycle < MaxLifecycle
    /\ LET r == EngineTeardown(Modules)
       IN  /\ SetModules(r.m)
           /\ eg_life' = LifeCall("teardown", r, Modules)
    /\ eg_n' = [eg_n EXCEPT !.lifecycle = @ + 1]
    /\ UNCHANGED <<eg_cfg, eg_db, eg_files, eg_hist, eg_clock, eg_run, eg_args, eg_ing>>
    /\ OnlyEngine

\* the engine and its surroundings before the first call
EngineFresh ==
    /\ eg_eng = NewEngine
    /\ eg_emb = NewEmbedder(FALSE, 1)
    /\ eg_retr = NewRetriever
    /\ eg_gen = NewGenerator(FALSE)
    /\ eg_eval = NewEvaluator("simple", Frac(7, 10))
    /\ eg_db = EmptyDb
    /\ eg_files = NoFiles
    /\ eg_hist = <<>>
    /\ eg_clock = 0
    /\ eg_run = IdleRun
    /\ eg_ing = NoIngest
    /\ eg_life = NoLife
    /\ eg_n = [runs |-> 0, ingests |-> 0, faults |-> 0, lifecycle |-> 0, returned |-> 0]

\* the documents ingested between the runs of the engine
RunIngestArgs ==
    {IngestArgs(<<StrDoc(<<"B", " ", "a">>), DictDoc(<<"B">>, Some([source |-> "file"]))>>,
                2, NoFault)
       @@ RunArgs(Queries, KArgs, MaxFaults)}

EngineInit ==
    /\ eg_cfg \in EngineConfigs(BOOLEAN, BOOLEAN, {1})
    /\ eg_args \in RunIngestArgs
    /\ EngineFresh

\* any documents, batch sizes and faults, for the engine that only ingests
IngestInit ==
    /\ eg_cfg \in EngineConfigs({FALSE}, {TRUE}, ChunkOverlaps)
    /\ eg_args \in {IngestArgs(d, b, f) @@ RunArgs({}, {}, 0) :
                        d \in SeqsUpTo(IngestDocs, MaxIngestDocs), b \in 1..2, f \in Faults}
    /\ EngineFresh

\* the engine that is set up, scored and torn down: one working
\* configuration and the ones that name an unknown provider or lack the
\* embedder's credential; a store of two documents once ingested
UnknownProviders == {"cohere"}

LifeConfigs ==
    {[c EXCEPT !.emb_provider = ep, !.retr_provider = rp, !.gen_provider = gp,
               !.metric = me, !.emb_key = ek] :
        c \in {d \in EngineConfigs({FALSE}, {TRUE}, {1}) :
                 d.gen_key /\ d.ragas_available},
        ep \in EMBEDDER_REGISTRY \cup UnknownProviders,
        rp \in RETRIEVER_REGISTRY \cup UnknownProviders,
        gp \in GENERATOR_REGISTRY \cup UnknownProviders,
        me \in {"exact_match", "bleu"},
        ek \in BOOLEAN}

LifeArgs ==
    {IngestArgs(<<StrDoc(<<"a">>), DictDoc(<<"B">>, Some([source |-> "file"]))>>,
                2, NoFault)
       @@ RunArgs({<<"a">>}, {PyNone, Some(3)}, 1)}

LifeInit ==
    /\ eg_cfg \in LifeConfigs
    /\ eg_args \in LifeArgs
    /\ EngineFresh

EngineIdle ==
    /\ eg_cfg = CHOOSE c \in EngineConfigs({FALSE}, {TRUE}, {1}) : TRUE
    /\ eg_args = IngestArgs(<<>>, 1, NoFault) @@ RunArgs({}, {}, 0)
    /\ EngineFresh

(***************************************************************************)
(* One set-up ChromaRetriever called by one or by two threads.  Nothing    *)
(* synchronizes `self._metrics["calls"] += 1`, `self._metrics["errors"]    *)
(* += 1` (base.py:71, 75) and `self._doc_count += len(texts)`              *)
(* (chroma.py:91): each reads the value and stores the sum later, and      *)
(* another thread can run between the two.                                 *)
(***************************************************************************)
Threads == 1..2
Counters == {"calls", "errors", "count"}

ThreadIdle == [pc |-> "idle", counter |-> "calls", amount |-> 0, local |-> 0]

\* what a call of the retriever does before it updates a counter: a search
\* (base.py:67-70 around _retrieve) returns or raises; an add (chroma.py:
\* 70-89) has put n documents into the collection
ThreadOps ==
    {[counter |-> "calls", amount |-> 1], [counter |-> "errors", amount |-> 1]}
        \cup {[counter |-> "count", amount |-> n] : n \in 1..MaxAdd}

\* the value stored by `x += amount` when x was read as local
CounterStore_Twice(local, amount) == local + amount + amount
CounterStore(local, amount) == local + amount

ThreadsInit ==
    /\ th_threads \in Threads
    /\ th_t = [t \in Threads |-> ThreadIdle]
    /\ th_ctr = [c \in Counters |-> 0]
    /\ th_done = [c \in Counters |-> 0]

ThreadsIdle ==
    /\ th_threads = 1
    /\ th_t = [t \in Threads |-> ThreadIdle]
    /\ th_ctr = [c \in Counters |-> 0]
    /\ th_done = [c \in Counters |-> 0]

ThreadOpsStarted ==
    th_done["calls"] + th_done["errors"]
        + Cardinality({t \in Threads : th_t[t].pc # "idle"})

\* a thread calls retriever(...) or retriever.add(...), up to the counter update
ThreadCall ==
    /\ \E t \in 1..th_threads, op \in ThreadOps :
          /\ th_t[t].pc = "idle"
          /\ ThreadOpsStarted + th_done["count"] < MaxThreadOps
          /\ th_t' = [th_t EXCEPT ![t] = [pc |-> "load", counter |-> op.counter,
                                          amount |-> op.amount, local |-> 0]]
    /\ UNCHANGED <<th_threads, th_ctr, th_done>>
    /\ OnlyThreads

\* the read of `x += amount`
ThreadLoad ==
    /\ \E t \in 1..th_threads :
          /\ th_t[t].pc = "load"
          /\ th_t' = [th_t EXCEPT ![t].pc = "store",
                                  ![t].local = th_ctr[th_t[t].counter]]
    /\ UNCHANGED <<th_threads, th_ctr, th_done>>
    /\ OnlyThreads

\* the write of `x += amount`; the call is complete
ThreadStore ==
    /\ \E t \in 1..th_threads :
          LET c == th_t[t].counter
          IN  /\ th_t[t].pc = "store"
              /\ th_ctr' = [th_ctr EXCEPT ![c] = CounterStore(th_t[t].local, th_t[t].amount)]
              /\ th_done' = [th_done EXCEPT ![c] = @ + th_t[t].amount]
              /\ th_t' = [th_t EXCEPT ![t] = ThreadIdle]
    /\ UNCHANGED th_threads
    /\ OnlyThreads

NextThreads == ThreadCall \/ ThreadLoad \/ ThreadStore

(***************************************************************************)
(* The `config get` and `config set` commands, cli/commands/config.py, on  *)
(* the file named by --config, which exists.  A configuration value is a   *)
(* mapping from keys to values or a scalar; the file holds its YAML text.  *)
(***************************************************************************)
ConfigKeys == {"a", "b"}

\* values: a scalar carries its Python type and its text
Scalar(type, text) == [dict |-> FALSE, items |-> <<>>, v |-> <<type, text>>]
Dict(items) == [dict |-> TRUE, items |-> items, v |-> <<"dict", "">>]
NoneValue == Scalar("none", "")
EmptyDict == Dict(<<>>)

\* the texts of the str values that occur
StrTexts == {"gpt-4", "3"}

\* json.loads(value), config.py:98-102: the arguments that are JSON texts and
\* what they parse to; any other argument raises and is kept as a str
JsonTexts ==
    ("3" :> Scalar("int", "3")) @@ ("true" :> Scalar("bool", "true"))
        @@ ("null" :> NoneValue) @@ ("{}" :> EmptyDict)
        @@ ("\"3\"" :> Scalar("str", "3"))
ParseValue(value) ==
    IF value \in DOMAIN JsonTexts THEN JsonTexts[value] ELSE Scalar("str", value)

\* yaml.dump of a scalar: the plain text, quoted when the plain text would
\* load as another type
YamlPlain ==
    ("3" :> <<"int", "3">>) @@ ("true" :> <<"bool", "true">>) @@ ("null" :> <<"none", "">>)
YamlQuote(text) == "'" \o text \o "'"
YamlToken_Plain(v) == IF v[1] = "none" THEN "null" ELSE v[2]
YamlToken(v) ==
    IF v[1] = "none" THEN "null"
    ELSE IF v[1] = "str" /\ v[2] \in DOMAIN YamlPlain THEN YamlQuote(v[2])
    ELSE v[2]

\* yaml.safe_load of a scalar token
YamlResolve(token) ==
    IF token \in DOMAIN YamlPlain THEN YamlPlain[token]
    ELSE IF \E t \in StrTexts : token = YamlQuote(t)
         THEN <<"str", CHOOSE t \in StrTexts : token = YamlQuote(t)>>
    ELSE <<"str", token>>

\* save_config, cli/utils.py:81-86: yaml.dump(config, sort_keys=False)
RECURSIVE YamlDump(_)
YamlDump(node) ==
    IF node.dict
    THEN [dict |-> TRUE, items |-> [k \in DOMAIN node.items |-> YamlDump(node.items[k])],
          token |-> ""]
    ELSE [dict |-> FALSE, items |-> <<>>, token |-> YamlToken(node.v)]

RECURSIVE YamlLoad(_)
YamlLoad(doc) ==
    IF doc.dict
    THEN Dict([k \in DOMAIN doc.items |-> YamlLoad(doc.items[k])])
    ELSE [dict |-> FALSE, items |-> <<>>, v |-> YamlResolve(doc.token)]

\* Python's truth value of a loaded document
Falsy(node) == node = EmptyDict \/ node = NoneValue

\* load_config, cli/utils.py:61-78, with a path that exists:
\* yaml.safe_load(f) or {}
load_config(file) ==
    LET loaded == IF file = <<>> THEN NoneValue ELSE YamlLoad(file[1])
    IN  IF Falsy(loaded) THEN EmptyDict ELSE loaded

save_config(config) == <<YamlDump(config)>>

\* config.py:79-85: the walk of `get` along the parts of the key
RECURSIVE ConfigLookup(_, _)
ConfigLookup(value, parts) ==
    IF parts = <<>> THEN <<value>>
    ELSE IF value.dict /\ Head(parts) \in DOMAIN value.items
         THEN ConfigLookup(value.items[Head(parts)], Tail(parts))
    ELSE <<>>

\* config.py:104-119: the walk of `set`, from a mapping `current`, creating the
\* missing sections; ok is FALSE when a section on the way is not a mapping
RECURSIVE ConfigStore(_, _, _)
ConfigStore(current, parts, parsed_value) ==
    IF Len(parts) = 1
    THEN [ok |-> TRUE, config |-> Dict((Head(parts) :> parsed_value) @@ current.items)]
    ELSE IF Head(parts) \in DOMAIN current.items /\ ~current.items[Head(parts)].dict
         THEN [ok |-> FALSE, config |-> current]
    ELSE [ok |-> ConfigStore(IF Head(parts) \in DOMAIN current.items
                             THEN current.items[Head(parts)] ELSE EmptyDict,
                             Tail(parts), parsed_value).ok,
          config |-> Dict((Head(parts) :>
                             ConfigStore(IF Head(parts) \in DOMAIN current.items
                                         THEN current.items[Head(parts)] ELSE EmptyDict,
                                         Tail(parts), parsed_value).config)
                          @@ current.items)]

\* the keys given on the command line, split at the dots
ConfigPaths == SeqsUpTo(ConfigKeys, MaxPathLen) \ {<<>>}
ConfigValues == {"gpt-4"} \cup DOMAIN JsonTexts

\* the files the commands start from
ConfigFiles ==
    {<<>>,
     save_config(Dict("a" :> Scalar("str", "gpt-4"))),
     save_config(Dict(("a" :> Scalar("str", "3")) @@ ("b" :> Scalar("int", "3")))),
     save_config(Dict(("a" :> Dict("b" :> Scalar("bool", "true"))) @@ ("b" :> NoneValue))),
     save_config(Dict("a" :> Dict(("a" :> EmptyDict) @@ ("b" :> Dict("a" :> Scalar("int", "3")))))),
     save_config(Scalar("str", "gpt-4"))}

ConfigCmd(action, parts, value, exit, out, before, after) ==
    [action |-> action, parts |-> parts, value |-> value, exit |-> exit, out |-> out,
     before |-> before, after |-> after]

\* `config get <key> --config <file>`
ConfigGet ==
    /\ Len(cf_log) < MaxConfigCmds
    /\ \E parts \in ConfigPaths :
          LET found == ConfigLookup(load_config(cf_file), parts)
          IN  cf_log' = Append(cf_log,
                  ConfigCmd("get", parts, "", IF found = <<>> THEN 1 ELSE 0, found,
                            cf_file, cf_file))
    /\ UNCHANGED cf_file
    /\ OnlyConfig

\* `config set <key> <value> --config <file>`; a document that is no mapping
\* has neither item assignment nor .get, and the command ends in the exception
ConfigSet ==
    /\ Len(cf_log) < MaxConfigCmds
    /\ \E parts \in ConfigPaths, value \in ConfigValues :
          LET config_dict == load_config(cf_file)
              r == IF config_dict.dict
                   THEN ConfigStore(config_dict, parts, ParseValue(value))
                   ELSE [ok |-> FALSE, config |-> config_dict]
          IN  /\ cf_file' = IF r.ok THEN save_config(r.config) ELSE cf_file
              /\ cf_log' = Append(cf_log,
                     ConfigCmd("set", parts, value, IF r.ok THEN 0 ELSE 1, <<>>,
                               cf_file, cf_file'))
    /\ OnlyConfig

ConfigInit ==
    /\ cf_file \in ConfigFiles
    /\ cf_log = <<>>

ConfigIdle ==
    /\ cf_file = <<>>
    /\ cf_log = <<>>

NextConfig == ConfigGet \/ ConfigSet

(***************************************************************************)
(* The `init` command, cli/commands/init.py, on one project path.  A       *)
(* directory is a function from the names below it to what they are: a     *)
(* directory, or a file with the text written to it.                       *)
(***************************************************************************)
TEMPLATES == {"rag-starter", "minimal"}

\* the --template values tried, and the callback `lambda x: x.lower()` of
\* line 68 on them
TemplateArgs == {"rag-starter", "minimal", "MINIMAL", "custom"}
TemplateLower(template) == IF template = "MINIMAL" THEN "minimal" ELSE template

DirEntry == [kind |-> "dir", text |-> <<>>]
FileEntry(text) == [kind |-> "file", text |-> text]

\* what stands at the path before the first command, apart from nothing
OldFile == FileEntry(<<"old">>)
OldEntries ==
    {<<>>,
     "notes.txt" :> OldFile,
     "config.yaml" :> OldFile,
     ("docs" :> DirEntry) @@ ("docs/welcome.md" :> OldFile),
     "data" :> OldFile,
     ("README.md" :> DirEntry) @@ ("config.yaml" :> OldFile)}

\* lines 91-95, 108, 126, 140, 204, 208-239, 268: the directories made and
\* the files written, in the order of the code
InitSteps_NoScript(template) ==
    <<[op |-> "mkdir", name |-> "data"], [op |-> "mkdir", name |-> "docs"],
      [op |-> "mkdir", name |-> ".nai"], [op |-> "mkdir", name |-> ".nai/runs"],
      [op |-> "write", name |-> "config.yaml"], [op |-> "write", name |-> ".env.example"],
      [op |-> "write", name |-> ".gitignore"], [op |-> "write", name |-> "README.md"]>>
      \o (IF template = "rag-starter"
          THEN <<[op |-> "write", name |-> "docs/welcome.md"]>> ELSE <<>>)
InitSteps(template) ==
    <<[op |-> "mkdir", name |-> "data"], [op |-> "mkdir", name |-> "docs"],
      [op |-> "mkdir", name |-> ".nai"], [op |-> "mkdir", name |-> ".nai/runs"],
      [op |-> "write", name |-> "config.yaml"], [op |-> "write", name |-> ".env.example"],
      [op |-> "write", name |-> ".gitignore"], [op |-> "write", name |-> "README.md"]>>
      \o (IF template = "rag-starter"
          THEN <<[op |-> "write", name |-> "docs/welcome.md"]>> ELSE <<>>)
      \o <<[op |-> "write", name |-> "run_pipeline.py"]>>

\* Path.mkdir(exist_ok=True) raises on a name that is a file; write_text and
\* open(path, "w") raise on a name that is a directory
StepFails(entries, step) ==
    /\ step.name \in DOMAIN entries
    /\ entries[step.name].kind # (IF step.op = "mkdir" THEN "dir" ELSE "file")

StepDone(entries, step, template) ==
    IF step.op = "mkdir"
    THEN (IF step.name \in DOMAIN entries THEN entries ELSE (step.name :> DirEntry) @@ entries)
    ELSE (step.name :> FileEntry(<<"init", template>>)) @@ entries

\* the steps one after the other, up to the first that raises
RECURSIVE InitRun(_, _, _)
InitRun(entries, steps, template) ==
    IF steps = <<>> THEN [exit |-> 0, entries |-> entries]
    ELSE IF StepFails(entries, Head(steps)) THEN [exit |-> 1, entries |-> entries]
    ELSE InitRun(StepDone(entries, Head(steps), template), Tail(steps), template)

\* init_command, lines 75-108 and on: dir is <<>> for a missing path
InitProject(dir, template, force) ==
    IF template \notin TEMPLATES THEN [exit |-> 1, dir |-> dir]
    ELSE IF dir # <<>> /\ DOMAIN dir[1] # {} /\ ~force THEN [exit |-> 1, dir |-> dir]
    ELSE [exit |-> InitRun(IF dir = <<>> THEN <<>> ELSE dir[1], InitSteps(template),
                           template).exit,
          dir |-> <<InitRun(IF dir = <<>> THEN <<>> ELSE dir[1], InitSteps(template),
                            template).entries>>]

\* `init <path> --template <template> [--force]`
InitCommand ==
    /\ Len(in_log) < MaxInitCmds
    /\ \E template \in TemplateArgs, force \in BOOLEAN :
          /\ in_dir' = InitProject(in_dir, TemplateLower(template), force).dir
          /\ in_log' = Append(in_log,
                [template |-> template, force |-> force,
                 exit |-> InitProject(in_dir, TemplateLower(template), force).exit,
                 before |-> in_dir, after |-> in_dir'])
    /\ OnlyInit

InitCmdInit ==
    /\ in_dir \in {<<>>} \cup {<<e>> : e \in OldEntries}
    /\ in_log = <<>>

InitCmdIdle ==
    /\ in_dir = <<>>
    /\ in_log = <<>>

NextInitCmd == InitCommand

(***************************************************************************)
(* The `ingest` and `run` commands, cli/commands/ingest.py and run.py, in  *)
(* the directory of a project that `init` made.  A command is a sequence   *)
(* of steps that ends at the first one that raises or exits.               *)
(***************************************************************************)
\* what `init` wrote that the two commands depend on: eval.metric of
\* config.yaml (init.py:36, 54) and whether docs/ holds the sample document
\* (init.py:208-239)
ProjectConfig(template) ==
    [metric |-> IF template = "rag-starter" THEN "ragas" ELSE "simple",
     sample_doc |-> template = "rag-starter"]

\* Settings(**config_dict), config.py:40-44: eval.metric is
\* Literal["ragas", "exact_match"]
SettingsValid(config) == config.metric \in {"ragas", "exact_match"}

\* config.py:47-54: PipelineSettings is a pydantic model and defines no get()
PipelineSettingsHasGet == FALSE

\* RunEngine.__init__, run_engine.py:99-126: the attributes it assigns; line
\* 116 calls self.settings.pipeline.get(...)
EngineInitAttrs ==
    {"settings", "modules", "_setup_complete", "_run_history", "run_dir", "langfuse",
     "langfuse_enabled"}
EngineConstruct ==
    IF PipelineSettingsHasGet THEN Returned(EngineInitAttrs)
    ELSE Raised(Exc("AttributeError"))

CliEnd(exit, reached, store) == [exit |-> exit, reached |-> reached, store |-> store]

\* run_command, run.py:75-130, with engine.run() ending as run_ok says
run_command(template, store, run_ok) ==
    IF ~SettingsValid(ProjectConfig(template))
    THEN CliEnd(1, <<"load_config", "Settings">>, store)
    ELSE IF EngineConstruct.outcome = "raised"
    THEN CliEnd(1, <<"load_config", "Settings", "RunEngine">>, store)
    ELSE IF "retriever" \notin EngineConstruct.value
    THEN CliEnd(1, <<"load_config", "Settings", "RunEngine", "engine.retriever">>, store)
    ELSE IF store = 0
    THEN CliEnd(1, <<"load_config", "Settings", "RunEngine", "engine.retriever">>, store)
    ELSE IF ~run_ok
    THEN CliEnd(1, <<"load_config", "Settings", "RunEngine", "engine.retriever",
                     "engine.run">>, store)
    ELSE CliEnd(0, <<"load_config", "Settings", "RunEngine", "engine.retriever",
                     "engine.run", "answer">>, store)

\* ingest_command on ./docs, ingest.py:72-243
ingest_command(template, store, reset, dry_run) ==
    IF ~SettingsValid(ProjectConfig(template))
    THEN CliEnd(1, <<"load_config", "Settings">>, store)
    ELSE IF ~ProjectConfig(template).sample_doc
    THEN CliEnd(1, <<"load_config", "Settings", "files">>, store)
    ELSE IF dry_run
    THEN CliEnd(0, <<"load_config", "Settings", "files">>, store)
    ELSE IF EngineConstruct.outcome = "raised"
    THEN CliEnd(1, <<"load_config", "Settings", "files", "RunEngine">>, store)
    ELSE IF reset /\ "retriever" \notin EngineConstruct.value
    THEN CliEnd(1, <<"load_config", "Settings", "files", "RunEngine", "engine.retriever">>,
                store)
    ELSE CliEnd(0, <<"load_config", "Settings", "files", "RunEngine", "engine.ingest">>,
                Min((IF reset THEN 0 ELSE store) + 1, MaxCliStore))

CliCmd(cmd, args, r) ==
    [cmd |-> cmd, args |-> args, exit |-> r.exit, reached |-> r.reached,
     store_before |-> cl_store]

\* `nai ingest ./docs [--reset] [--dry-run]`
CliIngest ==
    /\ Len(cl_log) < MaxCliCmds
    /\ \E reset \in BOOLEAN, dry_run \in BOOLEAN :
          /\ cl_store' = ingest_command(cl_project, cl_store, reset, dry_run).store
          /\ cl_log' = Append(cl_log,
                CliCmd("ingest", <<reset, dry_run>>,
                       ingest_command(cl_project, cl_store, reset, dry_run)))
    /\ UNCHANGED cl_project
    /\ OnlyCli

\* `nai run <query>`
CliRun ==
    /\ Len(cl_log) < MaxCliCmds
    /\ \E run_ok \in BOOLEAN :
          cl_log' = Append(cl_log,
              CliCmd("run", <<run_ok>>, run_command(cl_project, cl_store, run_ok)))
    /\ UNCHANGED <<cl_project, cl_store>>
    /\ OnlyCli

\* the store holds what engine.ingest() calls of the library put there
CliInit ==
    /\ cl_project \in TEMPLATES
    /\ cl_store \in 0..MaxCliStore
    /\ cl_log = <<>>

CliIdle ==
    /\ cl_project = "rag-starter"
    /\ cl_store = 0
    /\ cl_log = <<>>

NextCli == CliIngest \/ CliRun

RestIdle == ThreadsIdle /\ ConfigIdle /\ InitCmdIdle /\ CliIdle

(***************************************************************************)
(* Specifications.                                                         *)
(***************************************************************************)
InitChunk == ChunkInit /\ EvalIdle /\ EmbIdle /\ RetrIdle /\ EngineIdle /\ RestIdle
SpecChunk == InitChunk /\ [][NextChunk]_vars

InitEval == EvalInit /\ ChunkIdle /\ EmbIdle /\ RetrIdle /\ EngineIdle /\ RestIdle
SpecEval == InitEval /\ [][NextEval]_vars

InitEmb == EmbInit /\ ChunkIdle /\ EvalIdle /\ RetrIdle /\ EngineIdle /\ RestIdle
SpecEmbedder == InitEmb /\ [][NextEmb]_vars

InitRetr == RetrInit /\ ChunkIdle /\ EvalIdle /\ EmbIdle /\ EngineIdle /\ RestIdle
SpecRetriever == InitRetr /\ [][NextRetr]_vars

InitIngest == IngestInit /\ ChunkIdle /\ EvalIdle /\ EmbIdle /\ RetrIdle /\ RestIdle
NextIngest == Ingest
SpecIngest == InitIngest /\ [][NextIngest]_vars

InitLife == LifeInit /\ ChunkIdle /\ EvalIdle /\ EmbIdle /\ RetrIdle /\ RestIdle
NextLife ==
    \/ Setup \/ Teardown \/ RunStart \/ ScoreStart \/ RunEmbed \/ RunRetrieve
    \/ RunGenerate \/ RunFinalize \/ ScoreEvaluate \/ Ingest
SpecLife == InitLife /\ [][NextLife]_vars

PipelineIdle == ChunkIdle /\ EvalIdle /\ EmbIdle /\ RetrIdle /\ EngineIdle

InitThreads == ThreadsInit /\ PipelineIdle /\ ConfigIdle /\ InitCmdIdle /\ CliIdle
SpecThreads == InitThreads /\ [][NextThreads]_vars

InitConfig == ConfigInit /\ PipelineIdle /\ ThreadsIdle /\ InitCmdIdle /\ CliIdle
SpecConfig == InitConfig /\ [][NextConfig]_vars

InitInitCmd == InitCmdInit /\ PipelineIdle /\ ThreadsIdle /\ ConfigIdle /\ CliIdle
SpecInitCmd == InitInitCmd /\ [][NextInitCmd]_vars

InitCli == CliInit /\ PipelineIdle /\ ThreadsIdle /\ ConfigIdle /\ InitCmdIdle
SpecCli == InitCli /\ [][NextCli]_vars

Init == EngineInit /\ ChunkIdle /\ EvalIdle /\ EmbIdle /\ RetrIdle /\ RestIdle
Next == RunStart \/ RunEmbed \/ RunRetrieve \/ RunGenerate \/ RunFinalize \/ Ingest
Spec == Init /\ [][Next]_vars


(***************************************************************************)
(* C6: for a non-empty text, chunk_size C >= 1 and 0 <= O < C the chunks   *)
(* returned by _simple_chunk_text start at 0, C-O, 2(C-O), ..., each is    *)
(* non-empty and at most C long and is the text from its start, the last   *)
(* chunk ends exactly at the end of the text, and a text of length <= C    *)
(* comes back as the one chunk equal to the text.                          *)
(***************************************************************************)
C6_Precondition ==
    /\ Len(ck_text) >= 1
    /\ ck_size >= 1
    /\ 0 <= ck_overlap /\ ck_overlap < ck_size

C6_ChunkOffsets ==
    (ck_pc = "done" /\ C6_Precondition) =>
        LET n == Len(ck_chunks)
        IN  /\ n >= 1
            /\ Len(ck_starts) = n
            /\ \A i \in 1..n :
                 /\ ck_starts[i] = (i - 1) * (ck_size - ck_overlap)
                 /\ Len(ck_chunks[i]) >= 1
                 /\ Len(ck_chunks[i]) <= ck_size
                 /\ ck_chunks[i] =
                      SubSeq(ck_text, ck_starts[i] + 1, ck_starts[i] + Len(ck_chunks[i]))
            /\ ck_starts[n] + Len(ck_chunks[n]) = Len(ck_text)
            /\ (Len(ck_text) <= ck_size => ck_chunks = <<ck_text>>)
            /\ ck_chunks = simple_chunk_text(ck_text, ck_size, ck_overlap)

\* a text longer than the chunk size was cut into several overlapping chunks
C6_Witness ==
    /\ ck_pc = "done"
    /\ C6_Precondition
    /\ ck_overlap >= 1
    /\ Len(ck_chunks) >= 3
    /\ Len(ck_chunks[Len(ck_chunks)]) < ck_size

(***************************************************************************)
(* C9: for both evaluators, every threshold and every input, evaluate()    *)
(* returns a mapping that contains overall_score and passed, and passed is *)
(* true exactly when overall_score >= the configured threshold.            *)
(***************************************************************************)
C9_EvaluateAlwaysReturnsVerdict ==
    ev_ret.outcome # "none" =>
        /\ ev_ret.outcome = "returned"
        /\ {"overall_score", "passed"} \subseteq DOMAIN ev_ret.value
        /\ ev_ret.value.passed = FracGE(ev_ret.value.overall_score, ev_obj.threshold)

(***************************************************************************)
(* C10: if the scoring backend fails during RAGASEvaluator.evaluate(), the *)
(* call does not raise: it returns 0.0 for every configured metric,        *)
(* overall_score 0.0, passed false and an error field.                     *)
(***************************************************************************)
C10_BackendFailureDegrades ==
    (ev_ret.class = "ragas" /\ ev_ret.backend = "failed") =>
        /\ ev_ret.outcome = "returned"
        /\ \A i \in DOMAIN ev_obj.ragas_metrics :
             /\ ev_obj.ragas_metrics[i] \in DOMAIN ev_ret.value
             /\ FracIsZero(ev_ret.value[ev_obj.ragas_metrics[i]])
        /\ {"overall_score", "passed", "error"} \subseteq DOMAIN ev_ret.value
        /\ FracIsZero(ev_ret.value.overall_score)
        /\ ev_ret.value.passed = FALSE

(***************************************************************************)
(* C8: for every input list and every batch_size >= 1, a call of the       *)
(* embedder that returns gives exactly len(texts) vectors, the i-th being  *)
(* the embedding of texts[i]; and for empty input the embedding API is not *)
(* called and, once a credential is configured, [] is returned.            *)
(***************************************************************************)
C8_EmbedderOrderAndLength ==
    /\ em_ret.outcome = "returned" =>
         /\ Len(em_ret.value) = Len(em_args.texts)
         /\ \A i \in 1..Len(em_args.texts) :
              em_ret.value[i] = Embedding(em_args.texts[i])
    /\ (em_ret.outcome # "none" /\ em_args.texts = <<>>) =>
         /\ em_ret.api = 0
         /\ em_obj.api_key => (em_ret.outcome = "returned" /\ em_ret.value = <<>>)

\* a list longer than the batch size came back whole after a retried request
C8_Witness ==
    /\ em_ret.outcome = "returned"
    /\ Len(em_args.texts) > em_obj.batch_size
    /\ em_obj.batch_size >= 2
    /\ Len(em_args.texts) % em_obj.batch_size # 0
    /\ em_args.texts[1] # em_args.texts[Len(em_args.texts)]
    /\ em_ret.api > 2

(***************************************************************************)
(* C5: after any sequence of retriever operations, a search(q, k) that     *)
(* returns gives at most min(k, count) documents, count being the          *)
(* retriever's count and also the number of documents stored, ordered by   *)
(* non-increasing score, where score = 1 - distance.                       *)
(***************************************************************************)
C5_SearchClampedAndSorted ==
    (rt_ret.op = "search" /\ rt_ret.outcome = "returned") =>
        LET found == rt_ret.value
        IN  /\ Len(found) <= Min(rt_ret.k, RetrieverCount(rt_obj))
            /\ Len(found) <= Min(rt_ret.k, Len(rt_db.docs))
            /\ \A i \in 1..Len(found) : \A j \in i..Len(found) :
                 found[i].score >= found[j].score
            /\ \A i \in 1..Len(found) :
                 \E d \in Range(rt_db.docs) :
                    /\ d.id = found[i].id
                    /\ \E q \in DocTexts :
                         found[i].score = 1 - Distance(Embedding(q), d.embedding)

\* a search with k below the count returned k documents of different scores,
\* after a document had been deleted
C5_Witness ==
    /\ rt_ret.op = "search" /\ rt_ret.outcome = "returned"
    /\ Len(rt_ret.value) = 2
    /\ rt_ret.k = 2
    /\ RetrieverCount(rt_obj) = 3
    /\ Len(rt_db.docs) = 2
    /\ rt_ret.value[1].score > rt_ret.value[2].score

(***************************************************************************)
(* C1: every run() that returns executed embed, retrieve, generate and     *)
(* finalize in that order, each once, also when nothing was retrieved; the *)
(* retriever is invoked only in a run whose embed step has returned, the   *)
(* generator only in a run whose retrieve step has returned; and the trace *)
(* of the result is the records embed_query, retrieve, generate.           *)
(***************************************************************************)
C1_TraceSteps(trace) == [i \in 1..Len(trace) |-> trace[i].step]

C1_ReturnedRun ==
    eg_run.pc = "returned" =>
        /\ eg_run.steps = <<"embed", "retrieve", "generate", "finalize">>
        /\ eg_run.result # PyNone
        /\ C1_TraceSteps(eg_run.result[1].trace) = <<"embed_query", "retrieve", "generate">>
        /\ eg_hist[Len(eg_hist)] = eg_run.result[1]

C1_StepTaken ==
    /\ (~RunFinished /\ Invocations(eg_emb') # Invocations(eg_emb)) =>
          /\ eg_run.pc = "embed" /\ eg_run.steps = <<>>
          /\ Invocations(eg_emb') = Invocations(eg_emb) + 1
    /\ Invocations(eg_retr') # Invocations(eg_retr) =>
          /\ eg_run.pc = "retrieve" /\ eg_run.steps = <<"embed">>
          /\ C1_TraceSteps(eg_run.trace_log) = <<"embed_query">>
          /\ Invocations(eg_retr') = Invocations(eg_retr) + 1
    /\ Invocations(eg_gen') # Invocations(eg_gen) =>
          /\ eg_run.pc = "generate" /\ eg_run.steps = <<"embed", "retrieve">>
          /\ C1_TraceSteps(eg_run.trace_log) = <<"embed_query", "retrieve">>
          /\ Invocations(eg_gen') = Invocations(eg_gen) + 1
    /\ eg_run'.pc = "returned" => (eg_run.pc = "finalize" \/ eg_run.pc = "returned")
    /\ eg_run'.pc = "finalize" => (eg_run.pc = "generate" \/ eg_run.pc = "finalize")

C1_StepsInOrder == [][C1_StepTaken]_vars /\ []C1_ReturnedRun

\* a run returned although nothing was retrieved
C1_Witness ==
    /\ eg_run.pc = "returned"
    /\ eg_run.result[1].contexts = <<>>
    /\ Len(eg_run.result[1].trace) = 3

(***************************************************************************)
(* C2: when the embed, retrieve or generate step of run() raises, run()    *)
(* raises that exception (for an API request: the failure of its last      *)
(* attempt), no RunResult exists, and the run history and the run files    *)
(* are what they were before the call.                                     *)
(***************************************************************************)
C2_FailedRunLeavesNoResult ==
    (eg_run.pc = "raised" /\ eg_run.failed \in {"embed", "retrieve", "generate"}) =>
        /\ eg_run.exc # NoExc
        /\ eg_run.failed \in {"embed", "generate"} =>
              LET req == eg_run.requests[Len(eg_run.requests)]
              IN  /\ req.step = eg_run.failed
                  /\ req.outcome = "raised"
                  /\ eg_run.exc = req.exc
        /\ eg_run.result = PyNone
        /\ eg_hist = eg_run.before.hist
        /\ eg_files = eg_run.before.files

\* the generate step raised in a run that followed a saved run
C2_Witness ==
    /\ eg_run.pc = "raised"
    /\ eg_run.failed = "generate"
    /\ Len(eg_hist) = 1
    /\ DOMAIN eg_files # {}

(***************************************************************************)
(* C3: with save_runs on, once run() has returned r, read_run_result of    *)
(* r.run_id gives a record with r's run_id, query, answer, contexts and    *)
(* metrics.                                                                *)
(***************************************************************************)
C3_PersistedRecordMatches ==
    (eg_run.pc = "returned" /\ eg_cfg.save_runs) =>
        LET r == eg_run.result[1]
            rec == read_run_result(eg_files, r.run_id)
        IN  /\ rec # PyNone
            /\ rec[1].run_id = r.run_id
            /\ rec[1].query = r.query
            /\ rec[1].answer = r.answer
            /\ rec[1].contexts = r.contexts
            /\ rec[1].metrics = r.metrics

\* the second saved run returned, with contexts and an estimated cost
C3_Witness ==
    /\ eg_run.pc = "returned"
    /\ eg_cfg.save_runs
    /\ Len(eg_hist) = 2
    /\ eg_run.result[1].contexts # <<>>
    /\ eg_run.result[1].metrics.estimated_cost # PyNone

(***************************************************************************)
(* C4: a request to the embedding or the generation API is attempted at    *)
(* most 3 times; the answer of its first successful attempt is what the    *)
(* adapter returns; when 3 attempts failed the failure of the third is     *)
(* what run() raises; and no step of a run is executed twice.              *)
(***************************************************************************)
C4_RequestBounded(req) ==
    /\ req.attempts <= StopAfterAttempt
    /\ req.fails < StopAfterAttempt =>
          /\ req.outcome = "returned"
          /\ req.attempts = req.fails + 1
          /\ req.value = req.answer
    /\ req.fails >= StopAfterAttempt =>
          /\ req.outcome = "raised"
          /\ req.attempts = StopAfterAttempt
          /\ req.exc = ApiError(StopAfterAttempt)
          /\ eg_run.pc = "raised"
          /\ eg_run.exc = req.exc

C4_RetryBounded ==
    /\ \A i \in 1..Len(eg_run.requests) : C4_RequestBounded(eg_run.requests[i])
    /\ \A i \in 1..Len(eg_run.requests) : \A j \in 1..Len(eg_run.requests) :
          eg_run.requests[i].step = eg_run.requests[j].step => i = j
    /\ \A i \in 1..Len(eg_run.steps) : \A j \in 1..Len(eg_run.steps) :
          eg_run.steps[i] = eg_run.steps[j] => i = j
    /\ \A fails \in ApiFailures :
          LET r == Retry(fails)
          IN  /\ r.attempts <= StopAfterAttempt
              /\ r.ok <=> fails < StopAfterAttempt
              /\ r.ok => r.attempts = fails + 1
              /\ ~r.ok => r.exc = ApiError(StopAfterAttempt)

\* the generation request failed three times and run() raised its last failure
C4_Witness ==
    /\ eg_run.pc = "raised"
    /\ eg_run.failed = "generate"
    /\ Len(eg_run.requests) = 2
    /\ eg_run.requests[1].outcome = "returned"
    /\ eg_run.requests[2].attempts = StopAfterAttempt
    /\ eg_run.exc = ApiError(StopAfterAttempt)

(***************************************************************************)
(* C7: an ingest() that returns has added, for the documents in order, the *)
(* chunks of each document in order, the j-th of n with the document's     *)
(* metadata and chunk_index = j - 1 and total_chunks = n, n counting the   *)
(* chunks of that document; and a document of 1000 characters with         *)
(* chunk_size 400 and overlap 50 gives the chunks at 0, 350 and 700 with   *)
(* chunk_index 0, 1, 2 and total_chunks 3.                                 *)
(***************************************************************************)
C7_ChunkKeys == {"chunk_index", "total_chunks"}

C7_OwnMetadata(doc, meta) ==
    IF doc.kind = "dict" /\ doc.metadata # PyNone
    THEN /\ DOMAIN meta = DOMAIN doc.metadata[1] \cup C7_ChunkKeys
         /\ \A key \in DOMAIN doc.metadata[1] \ C7_ChunkKeys : meta[key] = doc.metadata[1][key]
    ELSE meta["source"] = "manual"

RECURSIVE C7_Added(_, _, _)
C7_Added(documents, added, cfg) ==
    IF documents = <<>> THEN added = <<>>
    ELSE IF Head(documents).kind = "other" THEN C7_Added(Tail(documents), added, cfg)
    ELSE LET doc == Head(documents)
             chunks == simple_chunk_text(doc.text, cfg.chunk_size, cfg.chunk_overlap)
             n == Len(chunks)
         IN  /\ Len(added) >= n
             /\ \A j \in 1..n :
                   /\ added[j].text = chunks[j]
                   /\ added[j].metadata["chunk_index"] = j - 1
                   /\ added[j].metadata["total_chunks"] = n
                   /\ C7_OwnMetadata(doc, added[j].metadata)
             /\ C7_Added(Tail(documents), SubSeq(added, n + 1, Len(added)), cfg)

\* the document of 1000 characters, each character its own position
C7_Document == [i \in 1..1000 |-> i]

C7_Scenario ==
    LET ex == BatchExtract(<<DictDoc(C7_Document, Some([source |-> "file"]))>>, 0, <<>>, <<>>)
        ch == BatchChunks(ex.texts, ex.metadata_list, 400, 50, <<>>, <<>>)
    IN  /\ Len(ch.texts) = 3
        /\ \A j \in 1..3 :
              /\ ch.texts[j] = PySlice(C7_Document, 350 * (j - 1), 350 * (j - 1) + 400)
              /\ Len(ch.texts[j]) <= 400
              /\ ch.texts[j][1] = 350 * (j - 1) + 1
              /\ ch.metadata[j] =
                    [source |-> "file", chunk_index |-> j - 1, total_chunks |-> 3]

C7_IngestChunkMetadata ==
    /\ eg_ing.outcome = "returned" => C7_Added(eg_args.documents, eg_ing.added, eg_cfg)
    /\ eg_ing.outcome = "none" => C7_Scenario

\* two documents of one batch were added, the first in three chunks
C7_Witness ==
    /\ eg_ing.outcome = "returned"
    /\ eg_args.batch_size = 2
    /\ Len(eg_args.documents) = 2
    /\ Len(eg_ing.added) = 4
    /\ eg_ing.added[3].metadata["total_chunks"] = 3
    /\ eg_ing.added[4].metadata["total_chunks"] = 1
    /\ eg_ing.added[4].metadata["source"] = "file"

(***************************************************************************)
(* C11: with a provider name that is in no registry, every setup(), run(), *)
(* score() and ingest() raises a configuration error that names an unknown *)
(* provider, the engine stays not set up, and the request makes no embed,  *)
(* retrieve or generate call and adds nothing to the store.                *)
(***************************************************************************)
\* the roles with their configured provider name and registry
C11_Roles(cfg) ==
    {<<"embedder", cfg.emb_provider, EMBEDDER_REGISTRY>>,
     <<"retriever", cfg.retr_provider, RETRIEVER_REGISTRY>>,
     <<"generator", cfg.gen_provider, GENERATOR_REGISTRY>>,
     <<"evaluator", cfg.metric, EVALUATOR_REGISTRY>>}

C11_Unknown(cfg) == {r \in C11_Roles(cfg) : r[2] \notin r[3]}

\* exc is the configuration error that names an unknown provider of cfg
C11_Names(exc, cfg) ==
    /\ exc.type = "ValueError"
    /\ {"role", "provider"} \subseteq DOMAIN exc
    /\ \E r \in C11_Unknown(cfg) : exc.role = r[1] /\ exc.provider = r[2]

\* exc is the configuration error about a missing API credential
C11_MissingCredential(exc, cfg) ==
    /\ exc = Exc("ValueError")
    /\ ~cfg.emb_key \/ ~cfg.gen_key

\* no request of the engine got past setup(): the engine is not set up, no
\* step of a run was executed, and no module has called an API or the store
C11_NothingCalled ==
    /\ ~eg_eng.setup_complete
    /\ eg_run.steps = <<>> /\ eg_run.requests = <<>> /\ eg_run.evals = <<>>
    /\ eg_run.result = PyNone
    /\ "embedder" \in eg_eng.mods => (eg_emb.api_calls = 0 /\ Invocations(eg_emb) = 0)
    /\ "retriever" \in eg_eng.mods => Invocations(eg_retr) = 0
    /\ "generator" \in eg_eng.mods => (eg_gen.api_calls = 0 /\ Invocations(eg_gen) = 0)
    /\ eg_db = EmptyDb /\ eg_hist = <<>> /\ eg_files = NoFiles

\* every request made so far raised an error that Error(exc, cfg) accepts
C11_AllRaised(Error(_, _)) ==
    /\ eg_run.pc # "idle" =>
          /\ eg_run.pc = "raised" /\ eg_run.failed = "setup"
          /\ Error(eg_run.exc, eg_cfg)
          /\ eg_run.caller = "score" => eg_run.score = Raised(eg_run.exc)
    /\ eg_ing.outcome # "none" =>
          /\ eg_ing.outcome = "raised" /\ eg_ing.added = <<>>
          /\ Error(eg_ing.exc, eg_cfg)
    /\ eg_life.op = "setup" =>
          /\ eg_life.outcome = "raised"
          /\ Error(eg_life.exc, eg_cfg)

\* the claim as stated: the error always names the provider
C11_UnknownProviderNamed ==
    C11_Unknown(eg_cfg) # {} => (C11_NothingCalled /\ C11_AllRaised(C11_Names))

\* the error names an unknown provider, or it is the missing-credential
\* error of a role that setup() reaches before the unknown one
C11_NamesOrCredential(exc, cfg) == C11_Names(exc, cfg) \/ C11_MissingCredential(exc, cfg)

C11_UnknownProviderFailsAtSetup ==
    /\ C11_Unknown(eg_cfg) # {} =>
          (C11_NothingCalled /\ C11_AllRaised(C11_NamesOrCredential))
    /\ (C11_Unknown(eg_cfg) # {} /\ eg_cfg.emb_key /\ eg_cfg.gen_key) =>
          C11_AllRaised(C11_Names)

\* run() and ingest() both raised the error naming the retriever's provider,
\* after the embedder had been created
C11_Witness ==
    /\ eg_cfg.retr_provider \notin RETRIEVER_REGISTRY
    /\ eg_eng.mods = {"embedder"}
    /\ eg_run.pc = "raised"
    /\ C11_Names(eg_run.exc, eg_cfg)
    /\ eg_run.exc.role = "retriever"
    /\ eg_ing.outcome = "raised"
    /\ eg_ing.exc = eg_run.exc
    /\ eg_n.runs = 2

(***************************************************************************)
(* C12: with no API credential configured, every call of the embedder, the *)
(* first and every later one on the same object, raises the missing-       *)
(* credential configuration error, no request reaches the embedding API,   *)
(* and the object is never left marked as set up.                          *)
(***************************************************************************)
C12_NoCredentialAlwaysFails ==
    (~em_obj.api_key /\ em_ret.outcome # "none") =>
        /\ em_ret.outcome = "raised"
        /\ em_ret.exc = Exc("ValueError")
        /\ em_ret.api = 0
        /\ em_obj.api_calls = 0
        /\ ~em_obj.setup_complete

(***************************************************************************)
(* C13: run(query, k) searches the retriever with the caller's k whenever  *)
(* the caller supplies one, 0 included, and with the configured top_k only *)
(* when the caller supplies none.                                          *)
(***************************************************************************)
C13_CallersK(k, top_k) == IF k = PyNone THEN top_k ELSE k[1]

C13_SearchUsesCallersK ==
    \A i \in 1..Len(eg_run.trace_log) :
        eg_run.trace_log[i].step = "retrieve" =>
            eg_run.trace_log[i].data.k = C13_CallersK(eg_run.k, eg_cfg.top_k)

(***************************************************************************)
(* C14: the retrieve step of a run returns min(k, document count)          *)
(* contexts; in every RunResult num_contexts is the number of its contexts *)
(* and avg_score is the mean score of exactly those contexts, or 0 when    *)
(* there is none, so computing it never divides by zero.                   *)
(***************************************************************************)
RECURSIVE C14_ScoreSum(_)
C14_ScoreSum(docs) == IF docs = <<>> THEN 0 ELSE Head(docs).score + C14_ScoreSum(Tail(docs))

\* avg, a fraction, is the mean of the scores of docs
C14_IsMean(avg, docs) ==
    /\ avg[2] > 0
    /\ IF docs = <<>> THEN avg[1] = 0
       ELSE avg[1] * Len(docs) = C14_ScoreSum(docs) * avg[2]

C14_ResultMetrics(result) ==
    /\ result.metrics.retrieval.num_contexts = Len(result.contexts)
    /\ C14_IsMean(result.metrics.retrieval.avg_score, result.contexts)

C14_Metrics ==
    /\ \A i \in 1..Len(eg_hist) : C14_ResultMetrics(eg_hist[i])
    /\ eg_run.result # PyNone =>
          /\ C14_ResultMetrics(eg_run.result[1])
          /\ eg_run.result[1].contexts = eg_run.retrieved_docs

\* the step in which the retriever returns
C14_Retrieved ==
    (eg_run.pc = "retrieve" /\ eg_run'.pc = "generate") =>
        Len(eg_run'.retrieved_docs) =
            Min(C13_CallersK(eg_run.k, eg_cfg.top_k), Len(eg_db.docs))

C15_OwnTokens(run) ==
    LET g == run.result[1].metrics.generator
    IN  [total_tokens |-> EstimatedTokens(<<run.query>>),
         prompt_tokens |-> g.prompt_tokens - run.before.tokens.prompt_tokens,
         completion_tokens |-> g.completion_tokens - run.before.tokens.completion_tokens]

C15_PerCallCost(run) ==
    Round5(EmbedderCost(C15_OwnTokens(run)) + GeneratorCost(C15_OwnTokens(run)))

C15_EstimatedCostPerRun ==
    eg_run.pc = "returned" =>
        LET cost == eg_run.result[1].metrics.estimated_cost
        IN  /\ cost = PyNone <=> eg_cfg.langfuse_enabled
            /\ cost # PyNone => cost = Some(C15_PerCallCost(eg_run))

(***************************************************************************)
(* C16: an ingest(documents, batch_size) that returns, batch_size >= 1,    *)
(* has added every chunk of every valid document to the store exactly      *)
(* once, in order, with one embedder call per batch that has chunks;       *)
(* chunks_created is the number of those chunks, retriever_count is the    *)
(* count before the call plus chunks_created, and documents_processed is   *)
(* the number of documents that were ingested.                             *)
(***************************************************************************)
C16_Valid(doc) == doc.kind \in {"str", "dict"}

C16_ValidDocs(documents) == SelectSeq(documents, C16_Valid)

\* the chunks of the valid documents, in order
RECURSIVE C16_Chunks(_, _)
C16_Chunks(documents, cfg) ==
    IF documents = <<>> THEN <<>>
    ELSE (IF C16_Valid(Head(documents))
          THEN simple_chunk_text(Head(documents).text, cfg.chunk_size, cfg.chunk_overlap)
          ELSE <<>>) \o C16_Chunks(Tail(documents), cfg)

\* the batches of the call that hold a valid document
C16_Batches(documents, batch_size) ==
    {b \in 0..Len(documents) :
        /\ b * batch_size < Len(documents)
        /\ \E i \in (b * batch_size + 1)..Min((b + 1) * batch_size, Len(documents)) :
              C16_Valid(documents[i])}

C16_AddedOnce ==
    LET chunks == C16_Chunks(eg_args.documents, eg_cfg)
        added == eg_ing.added
    IN  /\ [i \in 1..Len(added) |-> added[i].text] = chunks
        /\ \A i \in 1..Len(added) : \A j \in 1..Len(added) :
              added[i].id = added[j].id => i = j
        /\ Len(eg_db.docs) = eg_ing.count_before + Len(chunks)
        /\ Invocations(eg_emb) =
              Cardinality(C16_Batches(eg_args.documents, eg_args.batch_size))
        /\ eg_ing.value.chunks_created = Len(chunks)
        /\ eg_ing.value.retriever_count = eg_ing.count_before + Len(chunks)

C16_IngestAccounting ==
    eg_ing.outcome = "returned" =>
        /\ C16_AddedOnce
        /\ eg_ing.value.documents_processed = Len(C16_ValidDocs(eg_args.documents))

(***************************************************************************)
(* C17: score(query, ground_truth, k) makes one run() and then one         *)
(* evaluate(), on that run's answer, on its context texts in retrieved     *)
(* order and on the caller's ground truth; when run() raises the evaluator *)
(* is not invoked; the exception of either phase is the one score()        *)
(* raises; and the run that returned stays in the run history and in the   *)
(* run directory also when the evaluation raises.                          *)
(***************************************************************************)
\* the evaluator is invoked only by a score() whose run() returned, once
C17_EvaluateAfterRun ==
    /\ Len(eg_run.evals) <= 1
    /\ eg_run.evals # <<>> =>
          /\ eg_run.caller = "score" /\ eg_run.pc = "returned"
          /\ eg_run.steps = <<"embed", "retrieve", "generate", "finalize">>
          /\ eg_run.score.outcome # "none"
          /\ LET call == eg_run.evals[1]
                 result == eg_run.result[1]
             IN  /\ call.prediction = result.answer
                 /\ Len(call.contexts) = Len(eg_run.retrieved_docs)
                 /\ \A i \in 1..Len(call.contexts) :
                       call.contexts[i] = eg_run.retrieved_docs[i].text
                 /\ call.ground_truth = eg_run.ground_truth

\* how a score() ends
C17_ScoreEnds ==
    /\ eg_run.score.outcome # "none" => eg_run.caller = "score"
    /\ (eg_run.caller = "score" /\ eg_run.pc = "raised") =>
          /\ eg_run.evals = <<>>
          /\ eg_run.score = Raised(eg_run.exc)
    /\ (eg_run.caller = "score" /\ eg_run.pc = "returned"
          /\ eg_run.score.outcome # "none") =>
          LET call == eg_run.evals[1]
              result == eg_run.result[1]
          IN  /\ Len(eg_run.evals) = 1
              /\ eg_run.score.outcome = call.outcome
              /\ call.outcome = "raised" => eg_run.score.exc = call.exc
              /\ call.outcome = "returned" =>
                    /\ eg_run.score.value.evaluation = call.value
                    /\ eg_run.score.value.run_id = result.run_id
                    /\ eg_run.score.value.answer = result.answer
                    /\ eg_run.score.value.metrics = result.metrics
              \* the run stays recorded whatever the evaluation did
              /\ eg_hist # <<>> /\ eg_hist[Len(eg_hist)] = result
              /\ eg_cfg.save_runs =>
                    /\ read_run_result(eg_files, result.run_id) # PyNone
                    /\ read_run_result(eg_files, result.run_id)[1].answer = result.answer

C17_ScoreComposesRunAndEvaluate == C17_EvaluateAfterRun /\ C17_ScoreEnds

\* the evaluation of a run with two contexts raised; the run is the second
\* of the history
C17_Witness ==
    /\ eg_run.caller = "score" /\ eg_run.pc = "returned"
    /\ eg_run.score.outcome = "raised"
    /\ eg_run.score.exc = Exc("ZeroDivisionError")
    /\ Len(eg_run.evals[1].contexts) = 2
    /\ eg_run.evals[1].contexts[1] # eg_run.evals[1].contexts[2]
    /\ Len(eg_hist) = 2

(***************************************************************************)
(* C18: for every adapter, each call of its primary operation that returns *)
(* adds one to its calls counter and each call that raises adds one to its *)
(* errors counter, nothing else changes the two counters, so that calls    *)
(* and errors are the numbers of calls that returned and that raised; and  *)
(* the divisor of avg_time is never zero.                                  *)
(***************************************************************************)
\* a step from obj to after: `called` says that it is a call of the primary
\* operation, which ended as outcome
C18_Counted(obj, after, called, outcome) ==
    /\ (called /\ outcome = "returned") =>
          (after.calls = obj.calls + 1 /\ after.errors = obj.errors)
    /\ (called /\ outcome = "raised") =>
          (after.errors = obj.errors + 1 /\ after.calls = obj.calls)
    /\ ~called => (after.calls = obj.calls /\ after.errors = obj.errors)

C18_Step ==
    \* the embedder: every step of it is a call embedder(texts)
    /\ C18_Counted(em_obj, em_obj', <<em_obj, em_ret>>' # <<em_obj, em_ret>>,
                   em_ret'.outcome)
    \* the evaluators: every step is a call evaluate(...)
    /\ C18_Counted(ev_obj, ev_obj', <<ev_obj, ev_ret>>' # <<ev_obj, ev_ret>>,
                   ev_ret'.outcome)
    \* the retriever: its searches
    /\ C18_Counted(rt_obj, rt_obj',
                   <<rt_obj, rt_db, rt_ret>>' # <<rt_obj, rt_db, rt_ret>>
                     /\ rt_ret'.op = "search",
                   rt_ret'.outcome)

C18_CountersMatchCalls ==
    /\ [][C18_Step]_vars
    /\ [](AvgTimeDivisor(em_obj) > 0 /\ AvgTimeDivisor(ev_obj) > 0
            /\ AvgTimeDivisor(rt_obj) > 0)

(***************************************************************************)
(* C19: setup() and teardown() of the engine are idempotent: setup() on an *)
(* engine that is set up, and teardown() on an engine that is torn down or *)
(* was never set up, return and leave the engine and its modules as they   *)
(* were; and a run that is past its first step works on an engine that is  *)
(* set up, whatever was torn down before it.                               *)
(***************************************************************************)
C19_Repeated ==
    \/ eg_life.op = "setup" /\ eg_life.before.setup_complete
    \/ eg_life.op = "teardown" /\ ~eg_life.before.setup_complete

C19_RunAtWork == eg_run.pc \notin {"idle", "returned", "raised"}

C19_SetupTeardownIdempotent ==
    /\ C19_Repeated => (eg_life.outcome = "returned" /\ eg_life.same)
    /\ C19_RunAtWork => eg_eng.setup_complete

(***************************************************************************)
(* C20: the run history only grows, by one RunResult put at its end in the *)
(* step in which a run() returns that result, and with save_runs on the    *)
(* result is in the run directory by then; a run that raises, setup(),     *)
(* teardown(), ingest() and the evaluation of score() leave the history as *)
(* it is; so its length is the number of runs that returned.               *)
(***************************************************************************)
C20_Persisted(files, result) ==
    /\ RunFile(result.run_id) \in DOMAIN files
    /\ JsonLoad(files[RunFile(result.run_id)]).run_id = result.run_id

C20_Step ==
    /\ eg_hist' # eg_hist =>
          /\ eg_run.pc = "finalize" /\ eg_run'.pc = "returned"
          /\ eg_run'.result # PyNone
          /\ eg_hist' = Append(eg_hist, eg_run'.result[1])
          /\ eg_cfg.save_runs => C20_Persisted(eg_files', eg_run'.result[1])
    /\ (eg_run.pc # "returned" /\ eg_run'.pc = "returned") =>
          Len(eg_hist') = Len(eg_hist) + 1
    /\ eg_run'.pc = "raised" => eg_hist' = eg_hist
    /\ eg_life' # eg_life => eg_hist' = eg_hist

C20_HistoryAppendOnly ==
    /\ [][C20_Step]_vars
    /\ [](Len(eg_hist) = eg_n.returned)

\* two runs returned, with a teardown() between them that made the second run
\* set the engine up again
C20_Witness ==
    /\ Len(eg_hist) = 2
    /\ eg_hist[1] # eg_hist[2]
    /\ eg_run.pc = "returned" /\ eg_run.result[1] = eg_hist[2]
    /\ eg_life.op = "teardown" /\ eg_life.outcome = "returned"
    /\ eg_life.before.setup_complete
    /\ eg_eng.setup_complete

(***************************************************************************)
(* C21: the runs that returned have pairwise different run identifiers,    *)
(* also two runs of one query that read the same clock value; so with      *)
(* save_runs on the run directory holds one file per run that returned.    *)
(***************************************************************************)
C21_DistinctIds ==
    \A i, j \in 1..Len(eg_hist) :
        i # j => eg_hist[i].run_id # eg_hist[j].run_id

C21_RunIdsUnique ==
    /\ C21_DistinctIds
    /\ eg_cfg.save_runs => Cardinality(DOMAIN eg_files) = Len(eg_hist)

(***************************************************************************)
(* C22: when one thread calls the retriever, its calls and errors counters *)
(* and its document count always equal what the completed operations add   *)
(* up to; when two threads call it, a counter never exceeds that sum but    *)
(* can fall behind it: an update is lost.                                   *)
(***************************************************************************)
C22_NeverAhead == \A c \in Counters : th_ctr[c] <= th_done[c]

C22_SingleThreadExact ==
    th_threads = 1 => \A c \in Counters : th_ctr[c] = th_done[c]

C22_LostUpdateOnlyWithThreads == C22_NeverAhead /\ C22_SingleThreadExact

\* two threads are done and both calls and the document count lost an update
C22_Witness ==
    /\ th_threads = 2
    /\ \A t \in Threads : th_t[t].pc = "idle"
    /\ th_ctr["calls"] < th_done["calls"]
    /\ th_ctr["count"] < th_done["count"]

(***************************************************************************)
(* C23: `config set <key> <value>` on a file whose sections on the way to  *)
(* the key are mappings (or missing) exits 0, after it the file holds the  *)
(* parsed value at the key and every key that is neither on the way to it  *)
(* nor below it is as before, and a `config get <key>` that follows exits  *)
(* 0 with that value; `config set` through an element that is no mapping   *)
(* and `config get` of a key that does not exist exit 1; both leave the    *)
(* file as it was.                                                         *)
(***************************************************************************)
C23_IsPrefix(p, q) == Len(p) <= Len(q) /\ SubSeq(q, 1, Len(p)) = p

\* an element on the way to the key (the document itself included) exists
\* and is no mapping
C23_Blocked(file, parts) ==
    \E n \in 0..(Len(parts) - 1) :
        LET at == ConfigLookup(load_config(file), SubSeq(parts, 1, n))
        IN  at # <<>> /\ ~at[1].dict

C23_OthersKept(cmd) ==
    \A q \in ConfigPaths :
        (~C23_IsPrefix(q, cmd.parts) /\ ~C23_IsPrefix(cmd.parts, q)) =>
            ConfigLookup(load_config(cmd.after), q)
                = ConfigLookup(load_config(cmd.before), q)

C23_Set(cmd) ==
    IF C23_Blocked(cmd.before, cmd.parts)
    THEN cmd.exit = 1 /\ cmd.after = cmd.before
    ELSE /\ cmd.exit = 0
         /\ ConfigLookup(load_config(cmd.after), cmd.parts) = <<ParseValue(cmd.value)>>
         /\ C23_OthersKept(cmd)

C23_Get(cmd) ==
    /\ cmd.after = cmd.before
    /\ cmd.exit = (IF ConfigLookup(load_config(cmd.before), cmd.parts) = <<>> THEN 1 ELSE 0)

C23_GetAfterSet(set, get) ==
    (set.action = "set" /\ set.exit = 0 /\ get.action = "get" /\ get.parts = set.parts) =>
        (get.exit = 0 /\ get.out = <<ParseValue(set.value)>>)

C23_ConfigSetThenGet ==
    /\ \A i \in 1..Len(cf_log) :
          IF cf_log[i].action = "set" THEN C23_Set(cf_log[i]) ELSE C23_Get(cf_log[i])
    /\ \A i \in 1..(Len(cf_log) - 1) : C23_GetAfterSet(cf_log[i], cf_log[i + 1])

\* a JSON string that YAML must quote was set below two sections that did not
\* exist, in a file with another key, and was read back
C23_Witness ==
    /\ Len(cf_log) = 2
    /\ cf_log[1].action = "set" /\ cf_log[1].exit = 0
    /\ cf_log[1].parts = <<"b", "a", "b">> /\ cf_log[1].value = "\"3\""
    /\ cf_log[1].before = save_config(Dict("a" :> Scalar("str", "gpt-4")))
    /\ cf_log[2].action = "get" /\ cf_log[2].parts = cf_log[1].parts
    /\ cf_log[2].out = <<Scalar("str", "3")>>

(***************************************************************************)
(* C24: `init <path>` with a known template on a path that is missing or   *)
(* an empty directory exits 0 and leaves the files config.yaml,            *)
(* .env.example, README.md, .gitignore, run_pipeline.py and the            *)
(* directories data, docs and .nai under the path; with an unknown         *)
(* template, or on a directory that is not empty without --force, it exits *)
(* 1 and the path is as it was.                                            *)
(***************************************************************************)
C24_Files == {"config.yaml", ".env.example", "README.md", ".gitignore", "run_pipeline.py"}
C24_Dirs == {"data", "docs", ".nai"}

C24_Known(cmd) == TemplateLower(cmd.template) \in TEMPLATES
C24_Fresh(dir) == dir = <<>> \/ DOMAIN dir[1] = {}

C24_Created(dir) ==
    /\ dir # <<>>
    /\ C24_Files \cup C24_Dirs \subseteq DOMAIN dir[1]
    /\ \A f \in C24_Files : dir[1][f].kind = "file"
    /\ \A d \in C24_Dirs : dir[1][d].kind = "dir"

C24_Cmd(cmd) ==
    /\ (C24_Known(cmd) /\ C24_Fresh(cmd.before)) => (cmd.exit = 0 /\ C24_Created(cmd.after))
    /\ (~C24_Known(cmd) \/ (~C24_Fresh(cmd.before) /\ ~cmd.force)) =>
          (cmd.exit = 1 /\ cmd.after = cmd.before)

C24_InitCreatesOrRefuses == \A i \in 1..Len(in_log) : C24_Cmd(in_log[i])

\* a project was created at a missing path, and a second init of the same
\* path without --force was refused
C24_Witness ==
    /\ Len(in_log) = 2
    /\ in_log[1].before = <<>> /\ in_log[1].exit = 0
    /\ in_log[2].template = "minimal" /\ ~in_log[2].force /\ in_log[2].exit = 1
    /\ in_dir = in_log[1].after
    /\ in_dir[1]["config.yaml"].text = <<"init", "rag-starter">>

(***************************************************************************)
(* C25: in a project made by `init` whose vector store holds documents,    *)
(* `nai run <query>` with a pipeline that answers exits 0 after it has     *)
(* constructed the engine, reached engine.run() and shown the answer.      *)
(***************************************************************************)
C25_Answers(cmd) ==
    (cmd.cmd = "run" /\ cmd.store_before > 0 /\ cmd.args[1]) =>
        /\ cmd.exit = 0
        /\ cmd.reached[Len(cmd.reached)] = "answer"
        /\ \E i \in 1..Len(cmd.reached) : cmd.reached[i] = "engine.run"

C25_RunCommandShowsAnswer == \A i \in 1..Len(cl_log) : C25_Answers(cl_log[i])

(***************************************************************************)
(* C26: whatever was added to, deleted from and reset in a set-up          *)
(* retriever, its count property is the number of documents in the         *)
(* collection.                                                             *)
(***************************************************************************)
C26_CountIsCollectionSize ==
    rt_obj.setup_complete => RetrieverCount(rt_obj) = Len(rt_db.docs)

(***************************************************************************)
(* C27: for every chunk_size and chunk_overlap that the settings accept,   *)
(* every iteration of the loop of _simple_chunk_text moves the window      *)
(* start forward (so the loop ends for a finite text).                     *)
(***************************************************************************)
C27_Iteration == ck_pc = "loop" /\ ck_chunks' # ck_chunks

C27_StartAdvances == [][C27_Iteration => ck_start' > ck_start]_vars

(***************************************************************************)
(* C28: for 0 <= O < C the chunks returned by _simple_chunk_text lose no   *)
(* character (the first chunk followed by every later chunk without its    *)
(* first O characters is the text), and every chunk after the first ends   *)
(* behind the end of the chunk before it, so that it holds a character     *)
(* the chunk before it does not cover.                                     *)
(***************************************************************************)
RECURSIVE C28_Rebuilt(_, _, _)
C28_Rebuilt(chunks, i, overlap) ==
    IF i > Len(chunks) THEN <<>>
    ELSE (IF i = 1 THEN chunks[1] ELSE PySlice(chunks[i], overlap, Len(chunks[i])))
            \o C28_Rebuilt(chunks, i + 1, overlap)

C28_Returned == ck_pc = "done" /\ 0 <= ck_overlap /\ ck_overlap < ck_size

C28_LosesNothing == C28_Returned => C28_Rebuilt(ck_chunks, 1, ck_overlap) = ck_text

C28_EachChunkAddsText ==
    C28_Returned =>
        \A i \in 2..Len(ck_chunks) :
            ck_starts[i] + Len(ck_chunks[i]) > ck_starts[i - 1] + Len(ck_chunks[i - 1])

C28_ChunksCoverWithoutRedundancy == C28_LosesNothing /\ C28_EachChunkAddsText

(***************************************************************************)
(* C29: the engine's _setup_complete is true only when the four adapters   *)
(* exist and each has completed its setup; and while it is false (setup    *)
(* never ran, raised part-way, or the engine was torn down) the engine     *)
(* holds no adapter that is set up.                                        *)
(***************************************************************************)
C29_Adapter(role) ==
    CASE role = "embedder" -> eg_emb
      [] role = "retriever" -> eg_retr
      [] role = "generator" -> eg_gen
      [] role = "evaluator" -> eg_eval

C29_CompleteMeansAll ==
    eg_eng.setup_complete =>
        (eg_eng.mods = AllModules /\ \A role \in AllModules : C29_Adapter(role).setup_complete)

C29_AllOrNothing ==
    ~eg_eng.setup_complete =>
        \A role \in eg_eng.mods : ~C29_Adapter(role).setup_complete

C29_SetupIsAllOrNothing == C29_CompleteMeansAll /\ C29_AllOrNothing

(***************************************************************************)
(* C30: an ingest() that raises returns no statistics; when the embedding  *)
(* or the adding of batch j is what raised, the store holds, beyond what   *)
(* it held before, exactly the chunks of the batches 1..j-1, in order, the *)
(* retriever's count has grown by their number, and no chunk of batch j or *)
(* of a later batch was added.                                             *)
(***************************************************************************)
\* the batch whose embedding or adding is made to fail; 0 when setup raised
C30_FailedBatch == IF eg_eng.setup_complete THEN eg_args.fault.batch ELSE 0

\* the documents of the batches before batch j
C30_Before(documents, batch_size, j) ==
    SubSeq(documents, 1, Min(Len(documents), (j - 1) * batch_size))

C30_Kept ==
    C16_Chunks(C30_Before(eg_args.documents, eg_args.batch_size, C30_FailedBatch), eg_cfg)

C30_FailedIngestKeepsEarlierBatches ==
    eg_ing.outcome = "raised" =>
        /\ eg_ing.value = <<>>
        /\ eg_ing.exc # NoExc
        /\ eg_eng.setup_complete => C30_FailedBatch >= 1
        /\ [i \in 1..Len(eg_ing.added) |-> eg_ing.added[i].text] = C30_Kept
        /\ Len(eg_db.docs) = eg_ing.count_before + Len(C30_Kept)
        /\ eg_eng.setup_complete =>
              RetrieverCount(eg_retr) = eg_ing.count_before + Len(C30_Kept)

\* the second batch failed after the first batch had put chunks into the store
C30_Witness ==
    /\ eg_ing.outcome = "raised"
    /\ eg_args.fault.batch = 2 /\ eg_args.batch_size = 1
    /\ eg_eng.setup_complete
    /\ Len(eg_ing.added) >= 2
    /\ Len(eg_ing.added) < Len(C16_Chunks(eg_args.documents, eg_cfg))

====
